---- MODULE Spec2Model ----
\* FIRMS hotspot processing: the FIRMS-vs-UNGRD matcher (firms_ungrd_match.py)
\* and the deduplicating merge (firms_merge.py), as state machines over small
\* tables.  A table is a sequence of records; a nullable cell is <<>> (null,
\* NaN, NaT, None) or <<v>>.
EXTENDS Integers, Sequences, FiniteSets, TLC

VARIABLES
    pc,               \* position of the running pipeline
    excel_rows,       \* load_ungrd_excel: the rows pd.read_excel read, as they are in the sheet
    df_ungrd,         \* run_firms_vs_ungrd: the event table
    gdf_firms,        \* run_firms_vs_ungrd: the point table
    merged,           \* build_candidates: the candidate rows
    gdf_firms_reset,  \* build_candidates: the points with idx_firms
    window_days,      \* best_match_per_point: the window, <<>> before the call
    matches,          \* best_match_per_point: one row per matched idx_firms
    gdf_out,          \* attach_matches: the output table
    schemas,          \* read_shps: the columns of each table read, in the order of paths
    gdfs,             \* merge_firms_shps: the tables read, one per path
    prefer_value,     \* merge_firms_shps: prefer_instrument
    g,                \* merge_firms_shps: the concatenated table
    g_sorted,         \* deduplicate_prefer_instrument: the table sorted by _priority
    g_out,            \* deduplicate_prefer_instrument: the table returned
    dropped,          \* deduplicate_prefer_instrument: the dropped count, <<>> before
    before,           \* merge_firms_shps: len(g) before the deduplication, <<>> before
    final_path,       \* write_shp of the merge and of the matcher: the path written, <<>> before
    summary,          \* the MergeSummary or the MatchSummary returned, <<>> before
    fs,               \* the files that exist: path |-> content
    aoi,              \* run_random_absence_sampling: the geometries of the AOI table
    pts,              \* run_random_absence_sampling: the exclusion points
    buffer_m,         \* build_allowed_zone: the buffer radius, <<>> before the call
    allowed,          \* build_allowed_zone: the region returned, <<>> before
    n_points,         \* generate_random_points_in_geom: the count asked for
    seed,             \* generate_random_points_in_geom: the seed
    max_attempts_factor, \* generate_random_points_in_geom: the attempts per point
    rng,              \* generate_random_points_in_geom: the state of the generator
    box,              \* generate_random_points_in_geom: minx, miny, maxx, maxy
    rand_points,      \* generate_random_points_in_geom: the accepted points, in order
    attempts,         \* generate_random_points_in_geom: the draws made
    draws,            \* the candidates drawn by the running call, in order
    error,            \* the exception raised, <<>> if none
    call,             \* which call of generate_random_points_in_geom is running
    first_call,       \* what the first of two calls drew and gave back
    final_out,        \* write_points_shp: the path written, <<>> before
    sampling_summary, \* run_random_absence_sampling: the SamplingSummary returned
    writer,           \* the processes that write: where each is in its write_shp call
    written,          \* the writes made to the files, in order
    folder,           \* the batch walkers: the files of root_folder, in os.walk order
    shp_files,        \* the batch walkers: the files selected by the running walker
    cursor,           \* the batch walkers: the position of the loop in shp_files
    batch_summary,    \* the batch walkers: the summary of the running walker
    handled,          \* the files the walkers have gone through, with what came of each
    runs,             \* the walkers run: walker |-> the folder it found, the summary it returned
    text,             \* normalize_text: the value given
    once,             \* normalize_text(text), <<>> before the call
    twice,            \* normalize_text(normalize_text(text)), <<>> before the call
    columns,          \* normalize_columns: gdf.columns
    final_names       \* normalize_columns: the names given to the columns, <<>> before

vars == <<pc, excel_rows, df_ungrd, gdf_firms, merged, gdf_firms_reset, window_days, matches,
          gdf_out, schemas, gdfs, prefer_value, g, g_sorted, g_out, dropped,
          before, final_path, summary, fs,
          aoi, pts, buffer_m, allowed, n_points, seed, max_attempts_factor, rng, box,
          rand_points, attempts, draws, error, call, first_call, final_out,
          sampling_summary, writer, written,
          folder, shp_files, cursor, batch_summary, handled, runs,
          text, once, twice, columns, final_names>>

matchVars == <<excel_rows, df_ungrd, gdf_firms, merged, gdf_firms_reset, window_days, matches, gdf_out>>
mergeVars == <<schemas, gdfs, prefer_value, g, g_sorted, g_out, dropped, before, final_path, summary>>
samplerState == <<aoi, pts, buffer_m, allowed, n_points, seed, max_attempts_factor, rng, box,
                  rand_points, attempts, draws, call, first_call, final_out,
                  sampling_summary>>
sampleVars == <<samplerState, error>>
writeVars == <<writer, written>>
batchVars == <<folder, shp_files, cursor, batch_summary, handled, runs>>
textVars == <<text, once, twice>>
columnVars == <<columns, final_names>>
pureVars == <<textVars, columnVars>>
toolVars == <<batchVars, pureVars>>
restVars == <<fs, sampleVars, writeVars, toolVars>>

----
\* Bounds of the model.
MaxPoints == 2
MaxEvents == 2
MaxDay == 1
TicksPerDay == 2
MaxWindow == 1

\* window_days: int = 5
DefaultWindowDays == 5

----
\* Nullable cells.
None == <<>>
Some(v) == <<v>>
isna(x) == x = <<>>
notna(x) == x # <<>>
Val(x) == x[1]

\* A cell of a column read as text whose content is not a number.
Text(s) == <<s, "str">>
istext(cell) == Len(cell) = 2

SeqsUpTo(S, n) == UNION { [1..k -> S] : k \in 0..n }

RECURSIVE Flatten(_)
Flatten(ss) ==
    IF ss = <<>> THEN <<>> ELSE Head(ss) \o Flatten(Tail(ss))

Abs(n) == IF n < 0 THEN -n ELSE n

RECURSIVE Concat(_)
Concat(parts) == IF parts = <<>> THEN "" ELSE Head(parts) \o Concat(Tail(parts))

\* What is found at a path: no file, or a table with its columns and its records.
\* A record holds a null cell in a column its table has not.
NoSuchFile == [exists |-> FALSE, columns |-> {}, rows |-> <<>>]
Layer(cols, rows) == [exists |-> TRUE, columns |-> cols, rows |-> rows]

----
\* Text.  A text is a sequence of characters; an ASCII character is itself, any
\* other character is written by its code point: U+00E1 is a with acute,
\* U+00C1 is A with acute, U+00ED and U+00CD are i and I with acute, U+0301 is
\* the combining acute accent, U+00BA is the masculine ordinal indicator,
\* U+00A0 is the no-break space.
LowerLetters == <<"a", "b", "c", "e", "i", "l", "m", "o", "r", "s", "t", "u">>
UpperLetters == <<"A", "B", "C", "E", "I", "L", "M", "O", "R", "S", "T", "U">>

IndexIn(letters, c) == CHOOSE i \in DOMAIN letters : letters[i] = c
IsIn(letters, c) == \E i \in DOMAIN letters : letters[i] = c

\* str.isspace() of a character
isspace(c) == c \in { " ", "\t", "U+00A0" }

\* unicodedata.combining(ch) != 0
combining(c) == c = "U+0301"

\* str.upper() of a character: the ordinal indicator has no upper case.
upper_char(c) ==
    IF IsIn(LowerLetters, c) THEN UpperLetters[IndexIn(LowerLetters, c)]
    ELSE IF c = "U+00E1" THEN "U+00C1"
    ELSE IF c = "U+00ED" THEN "U+00CD"
    ELSE c

\* str.lower() of a character
lower_char(c) ==
    IF IsIn(UpperLetters, c) THEN LowerLetters[IndexIn(UpperLetters, c)]
    ELSE IF c = "U+00C1" THEN "U+00E1"
    ELSE IF c = "U+00CD" THEN "U+00ED"
    ELSE c

str_upper(s) == [i \in 1..Len(s) |-> upper_char(s[i])]
str_lower(s) == [i \in 1..Len(s) |-> lower_char(s[i])]

\* The compatibility decomposition of a character.
nfkd_char(c) ==
    CASE c = "U+00C1" -> <<"A", "U+0301">>
      [] c = "U+00E1" -> <<"a", "U+0301">>
      [] c = "U+00CD" -> <<"I", "U+0301">>
      [] c = "U+00ED" -> <<"i", "U+0301">>
      [] c = "U+00BA" -> <<"o">>
      [] c = "U+00A0" -> <<" ">>
      [] OTHER -> <<c>>

\* unicodedata.normalize("NFKD", s)
nfkd(s) == Flatten([i \in 1..Len(s) |-> nfkd_char(s[i])])

RECURSIVE lstrip(_)
lstrip(s) == IF s # <<>> /\ isspace(Head(s)) THEN lstrip(Tail(s)) ELSE s

RECURSIVE rstrip(_)
rstrip(s) ==
    IF s # <<>> /\ isspace(s[Len(s)]) THEN rstrip(SubSeq(s, 1, Len(s) - 1)) ELSE s

\* str.strip()
strip(s) == rstrip(lstrip(s))

\* "".join(ch for ch in s if not unicodedata.combining(ch))
strip_combining(s) == SelectSeq(s, LAMBDA c : ~combining(c))

\* re.sub(r"\s+", " ", s): every run of whitespace becomes one space.
RECURSIVE collapse_whitespace(_)
collapse_whitespace(s) ==
    IF s = <<>> THEN <<>>
    ELSE IF isspace(Head(s))
         THEN <<" ">> \o collapse_whitespace(lstrip(s))
         ELSE <<Head(s)>> \o collapse_whitespace(Tail(s))

\* normalize_text of firms_ungrd_match.py and of firms_admin_join.py, which are
\* the same: null for null; else upper and strip, decompose, drop the combining
\* marks, collapse the whitespace and strip.
normalize_text(val) ==
    IF isna(val) THEN None
    ELSE Some(strip(collapse_whitespace(strip_combining(nfkd(strip(str_upper(Val(val))))))))

\* raise and return
Raise(kind, message) == [raised |-> Some([kind |-> kind, message |-> message]), value |-> None]
Return(v) == [raised |-> None, value |-> Some(v)]

SetMin(S) == CHOOSE a \in S : \A b \in S : a <= b
SetMax(S) == CHOOSE a \in S : \A b \in S : a >= b

----
\* The inputs of the matcher.  A timestamp is a number of ticks, TicksPerDay to a
\* day; day d at midnight is d * TicksPerDay.
Midnight(d) == d * TicksPerDay

PointKeys ==
    { <<Some("META"), Some("ACACIAS")>>, <<None, Some("ACACIAS")>> }
EventKeys ==
    PointKeys \cup { <<Some("META"), Some("CUBARRAL")>> }

\* fecha_FIRMS is built from (anio, mes, dia): midnight of a day, or NaT.
PointDates == {None} \cup { Some(Midnight(d)) : d \in 0..MaxDay }
\* FECHA is whatever pd.to_datetime made of the cell: any instant, or NaT.
EventDates == {None} \cup { Some(t) : t \in 0..(Midnight(MaxDay + 1) - 1) }

PointRows ==
    { [depto_std |-> k[1], mpnombre_s_std |-> k[2], fecha_FIRMS |-> d] :
        k \in PointKeys, d \in PointDates }
EventRows ==
    { [DEPTO_std |-> k[1], MUNICIPIO_std |-> k[2], FECHA |-> d] :
        k \in EventKeys, d \in EventDates }

\* The worked case: a point of 10 January, events of 7, 10 and 13 January and of
\* 1 February (day 32), all in one municipality, window 5.
WorkedPointRows ==
    { [depto_std |-> Some("META"), mpnombre_s_std |-> Some("ACACIAS"),
       fecha_FIRMS |-> Some(Midnight(10))] }
WorkedEventRows ==
    { [DEPTO_std |-> Some("META"), MUNICIPIO_std |-> Some("ACACIAS"),
       FECHA |-> Some(Midnight(d))] : d \in {7, 10, 13, 32} }

PointTables(n) == SeqsUpTo(PointRows, n) \cup SeqsUpTo(WorkedPointRows, n)
EventTables(n) == SeqsUpTo(EventRows, n) \cup SeqsUpTo(WorkedEventRows, n)

\* The sheet of events as pd.read_excel reads it: the names as they are written,
\* or an empty cell; FECHA a timestamp, a text that is no date, or an empty cell.
RawMeta == <<"M", "e", "t", "a">>
RawAcacias == <<"A", "c", "a", "c", "U+00ED", "a", "s">>
RawCubarral == <<"c", "u", "b", "a", "r", "r", "a", "l", " ">>

ExcelKeys ==
    { <<Some(RawMeta), Some(RawAcacias)>>, <<None, Some(RawAcacias)>>,
      <<Some(RawMeta), Some(RawCubarral)>> }
ExcelDates ==
    { None, Text("sin fecha") } \cup { Some(t) : t \in 0..(Midnight(MaxDay + 1) - 1) }

ExcelRows ==
    { [DEPARTAMENTO |-> k[1], MUNICIPIO |-> k[2], FECHA |-> d] :
        k \in ExcelKeys, d \in ExcelDates }
WorkedExcelRows ==
    { [DEPARTAMENTO |-> Some(RawMeta), MUNICIPIO |-> Some(RawAcacias),
       FECHA |-> Some(Midnight(d))] : d \in {7, 10, 13, 32} }
ExcelTables(n) == SeqsUpTo(ExcelRows, n) \cup SeqsUpTo(WorkedExcelRows, n)

UngrdColumns == { "DEPARTAMENTO", "MUNICIPIO", "FECHA" }
FirmsColumns == { "depto_std", "mpnombre_s", "anio", "mes", "dia", "geometry" }

\* An Excel file that is not there, and a sheet without the FECHA column.
FaultyExcelFiles ==
    { NoSuchFile,
      Layer(UngrdColumns \ {"FECHA"},
            << [DEPARTAMENTO |-> Some(RawMeta), MUNICIPIO |-> Some(RawAcacias),
                FECHA |-> None] >>) }

\* A layer of points that is not there, and one without the dia column.
FaultyFirmsFiles ==
    { NoSuchFile, Layer(FirmsColumns \ {"dia"}, <<>>) }

----
\* The loaders

\* ensure_columns(df, required, name)
ensure_columns(cols, required) ==
    IF required \subseteq cols
    THEN Return(TRUE)
    ELSE Raise("KeyError", "Faltan columnas")

\* "".join(...): the cell holds the text, no more its characters.
joined(cell) == IF isna(cell) THEN None ELSE Some(Concat(Val(cell)))

\* s.apply(normalize_text)
normalize_series(cells) == [i \in 1..Len(cells) |-> joined(normalize_text(cells[i]))]

\* pd.to_datetime(cell, dayfirst=True, errors="coerce"): a timestamp stays, an
\* empty cell and a text that is no date become NaT.
to_datetime(cell) == IF isna(cell) \/ istext(cell) THEN None ELSE cell

\* errors="coerce" forgotten about: a row whose date is unreadable is dropped.
load_ungrd_excel_dropna(book) ==
    IF ~book.exists
    THEN Raise("FileNotFoundError", "No existe Excel UNGRD")
    ELSE IF ensure_columns(book.columns, UngrdColumns).raised # <<>>
    THEN ensure_columns(book.columns, UngrdColumns)
    ELSE LET kept == SelectSeq(book.rows, LAMBDA r : to_datetime(r.FECHA) # <<>>)
             deptos == normalize_series([i \in 1..Len(kept) |-> kept[i].DEPARTAMENTO])
             munis == normalize_series([i \in 1..Len(kept) |-> kept[i].MUNICIPIO])
         IN  Return([i \in 1..Len(kept) |->
                        [DEPTO_std |-> deptos[i], MUNICIPIO_std |-> munis[i],
                         FECHA |-> to_datetime(kept[i].FECHA)]])

load_ungrd_excel(book) ==
    IF ~book.exists
    THEN Raise("FileNotFoundError", "No existe Excel UNGRD")
    ELSE IF ensure_columns(book.columns, UngrdColumns).raised # None
    THEN ensure_columns(book.columns, UngrdColumns)
    ELSE LET deptos == normalize_series([i \in 1..Len(book.rows) |-> book.rows[i].DEPARTAMENTO])
             munis == normalize_series([i \in 1..Len(book.rows) |-> book.rows[i].MUNICIPIO])
         IN  Return([i \in 1..Len(book.rows) |->
                        [DEPTO_std |-> deptos[i], MUNICIPIO_std |-> munis[i],
                         FECHA |-> to_datetime(book.rows[i].FECHA)]])

\* load_firms_shp: the records of the layer with fecha_FIRMS built and the names
\* normalized, as the layer holds them here.
load_firms_shp(shp) ==
    IF ~shp.exists
    THEN Raise("FileNotFoundError", "No existe SHP FIRMS")
    ELSE IF ensure_columns(shp.columns, FirmsColumns \ {"geometry"}).raised # None
    THEN ensure_columns(shp.columns, FirmsColumns \ {"geometry"})
    ELSE Return(shp.rows)
Windows == (0..MaxWindow) \cup {DefaultWindowDays}

----
\* build_candidates

reset_index(gdf) ==
    [i \in 1..Len(gdf) |->
        [idx_firms |-> i - 1, depto_std |-> gdf[i].depto_std,
         mpnombre_s_std |-> gdf[i].mpnombre_s_std, fecha_FIRMS |-> gdf[i].fecha_FIRMS]]

\* One candidate row: the point's columns and the event's, null when e is None.
CandidateRow(p, e) ==
    [idx_firms |-> p.idx_firms, depto_std |-> p.depto_std,
     mpnombre_s_std |-> p.mpnombre_s_std, fecha_FIRMS |-> p.fecha_FIRMS,
     DEPTO_std |-> IF e = None THEN None ELSE Val(e).DEPTO_std,
     MUNICIPIO_std |-> IF e = None THEN None ELSE Val(e).MUNICIPIO_std,
     FECHA |-> IF e = None THEN None ELSE Val(e).FECHA]

\* The join keys of pandas' merge: equal cells match, and a null cell matches a
\* null cell.
KeysMatch(p, e) ==
    /\ p.depto_std = e.DEPTO_std
    /\ p.mpnombre_s_std = e.MUNICIPIO_std

\* how="inner" in place of how="left": a point without a matching event row
\* yields no candidate row.
MergeInner(firms, ungrd) ==
    Flatten([i \in 1..Len(firms) |->
        LET hits == SelectSeq(ungrd, LAMBDA e : KeysMatch(firms[i], e))
        IN  [j \in 1..Len(hits) |-> CandidateRow(firms[i], Some(hits[j]))]])

\* firms_subset.merge(ungrd_subset, how="left"): the left rows in their order,
\* each with its matching right rows in the right table's order, or with one
\* row of nulls.
MergeLeft(firms, ungrd) ==
    Flatten([i \in 1..Len(firms) |->
        LET hits == SelectSeq(ungrd, LAMBDA e : KeysMatch(firms[i], e))
        IN  IF hits = <<>>
            THEN << CandidateRow(firms[i], None) >>
            ELSE [j \in 1..Len(hits) |-> CandidateRow(firms[i], Some(hits[j]))]])

build_candidates(firms, ungrd) == MergeLeft(reset_index(firms), ungrd)

----
\* best_match_per_point

\* The operands of the subtraction swapped: event minus point.
dif_dias_event_minus_point(row) ==
    IF row.fecha_FIRMS = <<>> \/ row.FECHA = <<>>
    THEN <<>>
    ELSE <<(row.FECHA[1] - row.fecha_FIRMS[1]) \div TicksPerDay>>

\* (merged["fecha_FIRMS"] - merged[ungrd_fecha_col]).dt.days: the whole days of
\* the difference, rounded down; null when either instant is null.
dif_dias(row) ==
    IF isna(row.fecha_FIRMS) \/ isna(row.FECHA)
    THEN None
    ELSE Some((Val(row.fecha_FIRMS) - Val(row.FECHA)) \div TicksPerDay)

\* The sign kept.
abs_sign_kept(cell) == cell

\* Series.abs()
abs(cell) == IF isna(cell) THEN None ELSE Some(Abs(Val(cell)))

WithDiffs(m) ==
    [i \in 1..Len(m) |->
        [idx_firms |-> m[i].idx_firms, fecha_FIRMS |-> m[i].fecha_FIRMS,
         FECHA |-> m[i].FECHA, dif_dias |-> dif_dias(m[i]),
         dif_dias_abs |-> abs(dif_dias(m[i]))]]

\* sort_values(["idx_firms"]): the second sort column forgotten.
SortKeyLeq_idx_only(a, b) == a.idx_firms <= b.idx_firms

\* The order of sort_values(["idx_firms", "dif_dias_abs"]): by idx_firms, then by
\* dif_dias_abs with the nulls last.
SortKeyLeq(a, b) ==
    \/ a.idx_firms < b.idx_firms
    \/ /\ a.idx_firms = b.idx_firms
       /\ \/ isna(b.dif_dias_abs)
          \/ /\ notna(a.dif_dias_abs)
             /\ Val(a.dif_dias_abs) <= Val(b.dif_dias_abs)

\* An unstable sort: a row goes before the rows of equal key.
RECURSIVE InsertBeforeEquals(_, _)
InsertBeforeEquals(s, x) ==
    IF s = <<>> THEN <<x>>
    ELSE IF SortKeyLeq(x, Head(s))
         THEN <<x>> \o s
         ELSE <<Head(s)>> \o InsertBeforeEquals(Tail(s), x)

RECURSIVE InsertAfterEquals(_, _)
InsertAfterEquals(s, x) ==
    IF s = <<>> THEN <<x>>
    ELSE IF SortKeyLeq(Head(s), x)
         THEN <<Head(s)>> \o InsertAfterEquals(Tail(s), x)
         ELSE <<x>> \o s

\* A sort on several columns is pandas' lexsort: stable, rows of equal key keep
\* their order.
RECURSIVE sort_values(_)
sort_values(rows) ==
    IF rows = <<>> THEN <<>>
    ELSE InsertAfterEquals(sort_values(SubSeq(rows, 1, Len(rows) - 1)), rows[Len(rows)])

RECURSIVE FirstNotNa(_)
FirstNotNa(cells) ==
    IF cells = <<>> THEN None
    ELSE IF notna(Head(cells)) THEN Head(cells) ELSE FirstNotNa(Tail(cells))

RECURSIVE Ascending(_)
Ascending(S) ==
    IF S = {} THEN <<>>
    ELSE LET lo == CHOOSE x \in S : \A y \in S : x <= y
         IN  <<lo>> \o Ascending(S \ {lo})

\* The groupby forgotten: every row kept.
groupby_first_ungrouped(rows) ==
    [k \in 1..Len(rows) |->
        [idx_firms |-> rows[k].idx_firms, FECHA |-> rows[k].FECHA,
         dif_dias |-> rows[k].dif_dias, dif_dias_abs |-> rows[k].dif_dias_abs]]

\* groupby("idx_firms").first().reset_index(): one row per idx_firms, ascending;
\* each column holds the group's first non-null cell.
groupby_first(rows) ==
    LET keys == Ascending({ rows[i].idx_firms : i \in 1..Len(rows) })
    IN  [k \in 1..Len(keys) |->
            LET grp == SelectSeq(rows, LAMBDA r : r.idx_firms = keys[k])
            IN  [idx_firms |-> keys[k],
                 FECHA |-> FirstNotNa([i \in 1..Len(grp) |-> grp[i].FECHA]),
                 dif_dias |-> FirstNotNa([i \in 1..Len(grp) |-> grp[i].dif_dias]),
                 dif_dias_abs |-> FirstNotNa([i \in 1..Len(grp) |-> grp[i].dif_dias_abs])]]

RECURSIVE drop_duplicates(_)
drop_duplicates(s) ==
    IF s = <<>> THEN <<>>
    ELSE LET front == drop_duplicates(SubSeq(s, 1, Len(s) - 1))
             last == s[Len(s)]
         IN  IF \E k \in 1..Len(front) : front[k] = last
             THEN front ELSE Append(front, last)

Digits == <<"0", "1", "2", "3", "4", "5", "6", "7", "8", "9">>

RECURSIVE str(_)
str(n) == IF n < 10 THEN Digits[n + 1] ELSE str(n \div 10) \o Digits[(n % 10) + 1]

\* f"ventana_{window_days}dias"
VentanaLabel(w) == "ventana_" \o str(w) \o "dias"

coincidencia_exacta(b) == notna(b.dif_dias) /\ Val(b.dif_dias) = 0

\* "<" in place of "<=".
coincidencia_ventana_strict(b, w) ==
    /\ ~coincidencia_exacta(b)
    /\ b.dif_dias_abs # <<>>
    /\ b.dif_dias_abs[1] < w

coincidencia_ventana(b, w) ==
    /\ ~coincidencia_exacta(b)
    /\ notna(b.dif_dias_abs)
    /\ Val(b.dif_dias_abs) <= w

tipo(b, w) ==
    IF coincidencia_exacta(b) THEN "exacta"
    ELSE IF coincidencia_ventana(b, w) THEN VentanaLabel(w)
    ELSE "sin_coincidencia"

best_match_per_point(m, w) ==
    LET md == WithDiffs(m)
        valid == SelectSeq(md, LAMBDA r : notna(r.FECHA))
    IN  IF Len(valid) = 0
        THEN LET ids == drop_duplicates([i \in 1..Len(md) |-> md[i].idx_firms])
             IN  [i \in 1..Len(ids) |->
                    [idx_firms |-> ids[i], fecha_UNGRD_match |-> None,
                     dif_dias_min |-> None, dif_dias_abs |-> None,
                     tipo_coincidencia |-> "sin_coincidencia"]]
        ELSE LET best == groupby_first(sort_values(valid))
             IN  [i \in 1..Len(best) |->
                    [idx_firms |-> best[i].idx_firms,
                     fecha_UNGRD_match |-> best[i].FECHA,
                     dif_dias_min |-> best[i].dif_dias,
                     dif_dias_abs |-> best[i].dif_dias_abs,
                     tipo_coincidencia |-> tipo(best[i], w)]]

----
\* attach_matches

\* base.merge(matches, on="idx_firms", how="left")
MergeMatches(base, mt) ==
    Flatten([i \in 1..Len(base) |->
        LET hits == SelectSeq(mt, LAMBDA r : r.idx_firms = base[i])
        IN  IF hits = <<>>
            THEN << [idx_firms |-> base[i], fecha_UNGRD_match |-> None,
                     dif_dias_min |-> None, dif_dias_abs |-> None,
                     tipo_coincidencia |-> None] >>
            ELSE [j \in 1..Len(hits) |->
                    [idx_firms |-> base[i],
                     fecha_UNGRD_match |-> hits[j].fecha_UNGRD_match,
                     dif_dias_min |-> hits[j].dif_dias_min,
                     dif_dias_abs |-> hits[j].dif_dias_abs,
                     tipo_coincidencia |-> Some(hits[j].tipo_coincidencia)]]])

\* m["tipo_coincidencia"].fillna("sin_coincidencia")
fillna(m) ==
    [i \in 1..Len(m) |->
        [m[i] EXCEPT !.tipo_coincidencia =
            IF isna(@) THEN Some("sin_coincidencia") ELSE @]]

OutRow(p, r) ==
    [idx_firms |-> p.idx_firms, depto_std |-> p.depto_std,
     mpnombre_s_std |-> p.mpnombre_s_std, fecha_FIRMS |-> p.fecha_FIRMS,
     fecha_UNGRD_match |-> IF r = None THEN None ELSE Val(r).fecha_UNGRD_match,
     dif_dias_min |-> IF r = None THEN None ELSE Val(r).dif_dias_min,
     dif_dias_abs |-> IF r = None THEN None ELSE Val(r).dif_dias_abs,
     tipo_coincidencia |-> IF r = None THEN None ELSE Val(r).tipo_coincidencia]

\* gdf_firms_reset.merge(m, on="idx_firms", how="left")
MergeFinal(reset, m) ==
    Flatten([i \in 1..Len(reset) |->
        LET hits == SelectSeq(m, LAMBDA r : r.idx_firms = reset[i].idx_firms)
        IN  IF hits = <<>>
            THEN << OutRow(reset[i], None) >>
            ELSE [j \in 1..Len(hits) |-> OutRow(reset[i], Some(hits[j]))]])

attach_matches(reset, mt) ==
    MergeFinal(reset,
               fillna(MergeMatches([i \in 1..Len(reset) |-> reset[i].idx_firms], mt)))

----
\* The files.  A path is a string; fs maps each path that exists to the content
\* last written to it.
NoFiles == [p \in {} |-> <<>>]

exists(files, p) == p \in DOMAIN files

\* A file that exists is left as it is.
to_file_exclusive(files, p, content) ==
    [q \in DOMAIN files \cup {p} |-> IF q \in DOMAIN files THEN files[q] ELSE content]

\* gdf.to_file(final_path): creates the file, or replaces its content.
to_file(files, p, content) ==
    [q \in DOMAIN files \cup {p} |-> IF q = p THEN content ELSE files[q]]

\* The output paths of the model, without their extension.
Bases ==
    { "out", "pts.v1" }
    \cup { stem \o suffix : stem \in { "a", "b" }, suffix \in { "_wgs84", "_wgs84_recorte" } }

\* os.path.splitext on the output paths of the model: the cut before the last
\* dot.
splitext(p) == CHOOSE cut \in Bases \X { ".shp" } : cut[1] \o cut[2] = p

\* f"{v}"
Format03d_unpadded(v) == str(v)

\* f"{v:03d}"
Format03d(v) ==
    IF v < 10 THEN "00" \o str(v) ELSE IF v < 100 THEN "0" \o str(v) ELSE str(v)

\* f"{base}_v{v:03d}{ext}"
VersionCandidate(base, ext, v) == base \o "_v" \o Format03d(v) \o ext

\* The loop of next_version_path, from version v.
RECURSIVE ProbeVersions(_, _, _, _)
ProbeVersions(files, base, ext, v) ==
    IF ~exists(files, VersionCandidate(base, ext, v))
    THEN VersionCandidate(base, ext, v)
    ELSE ProbeVersions(files, base, ext, v + 1)

\* The first candidate is taken without a look at the files.
next_version_path_first_candidate(files, out_shp_path) ==
    IF ~exists(files, out_shp_path) THEN out_shp_path
    ELSE VersionCandidate(splitext(out_shp_path)[1], splitext(out_shp_path)[2], 2)

next_version_path(files, out_shp_path) ==
    IF ~exists(files, out_shp_path) THEN out_shp_path
    ELSE ProbeVersions(files, splitext(out_shp_path)[1], splitext(out_shp_path)[2], 2)

\* f"{base}_{k}{ext}"
SuffixCandidate(base, ext, k) == base \o "_" \o str(k) \o ext

\* The loop of next_version_path_suffix_1, from suffix k.
RECURSIVE ProbeSuffixes(_, _, _, _)
ProbeSuffixes(files, base, ext, k) ==
    IF ~exists(files, SuffixCandidate(base, ext, k))
    THEN SuffixCandidate(base, ext, k)
    ELSE ProbeSuffixes(files, base, ext, k + 1)

next_version_path_suffix_1(files, out_path) ==
    IF ~exists(files, out_path) THEN out_path
    ELSE ProbeSuffixes(files, splitext(out_path)[1], splitext(out_path)[2], 1)

\* No process is writing on its own.
NoWriters ==
    /\ writer = <<>>
    /\ written = <<>>

\* No matcher run has started.
MatcherIdle ==
    /\ excel_rows = <<>>
    /\ df_ungrd = <<>>
    /\ gdf_firms = <<>>
    /\ merged = <<>>
    /\ gdf_firms_reset = <<>>
    /\ window_days = None
    /\ matches = <<>>
    /\ gdf_out = <<>>

\* No merge has started.
MergeIdle ==
    /\ schemas = <<>>
    /\ gdfs = <<>>
    /\ prefer_value = None
    /\ g = <<>>
    /\ g_sorted = <<>>
    /\ g_out = <<>>
    /\ dropped = None
    /\ before = None
    /\ final_path = None
    /\ summary = None

\* No batch walker has started.
BatchIdle ==
    /\ folder = <<>>
    /\ shp_files = <<>>
    /\ cursor = 0
    /\ batch_summary = None
    /\ handled = <<>>
    /\ runs = <<>>

\* normalize_text and normalize_columns have not been called.
PureIdle ==
    /\ text = None
    /\ once = None
    /\ twice = None
    /\ columns = <<>>
    /\ final_names = None

ToolsIdle == BatchIdle /\ PureIdle

\* No sampling run has started.
SamplerIdle ==
    /\ aoi = <<>>
    /\ pts = <<>>
    /\ buffer_m = None
    /\ allowed = None
    /\ n_points = None
    /\ seed = None
    /\ max_attempts_factor = None
    /\ rng = None
    /\ box = None
    /\ rand_points = <<>>
    /\ attempts = 0
    /\ draws = <<>>
    /\ error = None
    /\ call = 0
    /\ first_call = None
    /\ final_out = None
    /\ sampling_summary = None

----
\* run_firms_vs_ungrd, step by step.

InitMatch ==
    /\ pc = "run_firms_vs_ungrd"
    /\ excel_rows = <<>>
    /\ df_ungrd = <<>>
    /\ gdf_firms = <<>>
    /\ merged = <<>>
    /\ gdf_firms_reset = <<>>
    /\ window_days = None
    /\ matches = <<>>
    /\ gdf_out = <<>>
    /\ schemas = <<>>
    /\ gdfs = <<>>
    /\ prefer_value = None
    /\ g = <<>>
    /\ g_sorted = <<>>
    /\ g_out = <<>>
    /\ dropped = None
    /\ before = None
    /\ final_path = None
    /\ summary = None
    /\ fs = NoFiles
    /\ SamplerIdle
    /\ ToolsIdle
    /\ NoWriters

LoadUngrdExcel ==
    /\ pc = "run_firms_vs_ungrd"
    /\ \E book \in { Layer(UngrdColumns, t) : t \in ExcelTables(MaxEvents) }
                      \cup FaultyExcelFiles :
          /\ excel_rows' = book.rows
          /\ df_ungrd' = IF load_ungrd_excel(book).raised = None
                         THEN Val(load_ungrd_excel(book).value) ELSE <<>>
          /\ error' = load_ungrd_excel(book).raised
          /\ pc' = IF load_ungrd_excel(book).raised = None THEN "ungrd_loaded" ELSE "raised"
    /\ UNCHANGED <<gdf_firms, merged, gdf_firms_reset, window_days, matches, gdf_out>>
    /\ UNCHANGED <<mergeVars, fs, samplerState, writeVars, toolVars>>

LoadFirmsShp ==
    /\ pc = "ungrd_loaded"
    /\ \E shp \in { Layer(FirmsColumns, t) : t \in PointTables(MaxPoints) }
                     \cup FaultyFirmsFiles :
          /\ gdf_firms' = IF load_firms_shp(shp).raised = None
                          THEN Val(load_firms_shp(shp).value) ELSE <<>>
          /\ error' = load_firms_shp(shp).raised
          /\ pc' = IF load_firms_shp(shp).raised = None THEN "firms_loaded" ELSE "raised"
    /\ UNCHANGED <<excel_rows, df_ungrd, merged, gdf_firms_reset, window_days, matches,
                   gdf_out>>
    /\ UNCHANGED <<mergeVars, fs, samplerState, writeVars, toolVars>>

BuildCandidates ==
    /\ pc = "firms_loaded"
    /\ gdf_firms_reset' = reset_index(gdf_firms)
    /\ merged' = build_candidates(gdf_firms, df_ungrd)
    /\ pc' = "candidates_built"
    /\ UNCHANGED <<excel_rows, df_ungrd, gdf_firms, window_days, matches, gdf_out>>
    /\ UNCHANGED <<mergeVars, restVars>>

BestMatchPerPoint ==
    /\ pc = "candidates_built"
    /\ \E w \in Windows :
          /\ window_days' = Some(w)
          /\ matches' = best_match_per_point(merged, w)
    /\ pc' = "matched"
    /\ UNCHANGED <<excel_rows, df_ungrd, gdf_firms, merged, gdf_firms_reset, gdf_out>>
    /\ UNCHANGED <<mergeVars, restVars>>

AttachMatches ==
    /\ pc = "matched"
    /\ gdf_out' = attach_matches(gdf_firms_reset, matches)
    /\ pc' = "attached"
    /\ UNCHANGED <<excel_rows, df_ungrd, gdf_firms, merged, gdf_firms_reset, window_days, matches>>
    /\ UNCHANGED <<mergeVars, restVars>>

\* write_shp(gdf_out, out_shp, version=True) of firms_ungrd_match.py.
MatchOutPath == "out.shp"

WriteMatchShp ==
    /\ pc = "attached"
    /\ final_path' = Some(next_version_path_suffix_1(fs, MatchOutPath))
    /\ fs' = to_file(fs, next_version_path_suffix_1(fs, MatchOutPath), gdf_out)
    /\ pc' = "match_written"
    /\ UNCHANGED <<schemas, gdfs, prefer_value, g, g_sorted, g_out, dropped, before, summary>>
    /\ UNCHANGED <<matchVars, sampleVars, writeVars, toolVars>>

\* n_window counts the label of the default window, not of the window given.
MatchSummary_default_label(out, ungrd, cands, w, path) ==
    [n_points |-> Len(out),
     n_ungrd_rows |-> Len(ungrd),
     n_candidates_after_admin_merge |-> Len(cands),
     n_points_with_any_ungrd |-> Len(SelectSeq(out, LAMBDA r : r.fecha_UNGRD_match # <<>>)),
     n_exact |-> Len(SelectSeq(out, LAMBDA r : r.tipo_coincidencia = <<"exacta">>)),
     n_window |-> Len(SelectSeq(out, LAMBDA r : r.tipo_coincidencia = <<"ventana_5dias">>)),
     n_none |-> Len(SelectSeq(out, LAMBDA r : r.tipo_coincidencia = <<"sin_coincidencia">>)),
     out_path |-> path]

MatchSummary(out, ungrd, cands, w, path) ==
    [n_points |-> Len(out),
     n_ungrd_rows |-> Len(ungrd),
     n_candidates_after_admin_merge |-> Len(cands),
     n_points_with_any_ungrd |-> Len(SelectSeq(out, LAMBDA r : notna(r.fecha_UNGRD_match))),
     n_exact |-> Len(SelectSeq(out, LAMBDA r : r.tipo_coincidencia = Some("exacta"))),
     n_window |-> Len(SelectSeq(out, LAMBDA r : r.tipo_coincidencia = Some(VentanaLabel(w)))),
     n_none |-> Len(SelectSeq(out, LAMBDA r : r.tipo_coincidencia = Some("sin_coincidencia"))),
     out_path |-> path]

ReturnMatchSummary ==
    /\ pc = "match_written"
    /\ summary' = Some(MatchSummary(gdf_out, df_ungrd, merged, Val(window_days),
                                    Val(final_path)))
    /\ pc' = "match_returned"
    /\ UNCHANGED <<schemas, gdfs, prefer_value, g, g_sorted, g_out, dropped, before,
                   final_path>>
    /\ UNCHANGED <<matchVars, fs, sampleVars, writeVars, toolVars>>

NextMatch ==
    \/ LoadUngrdExcel
    \/ LoadFirmsShp
    \/ BuildCandidates
    \/ BestMatchPerPoint
    \/ AttachMatches
    \/ WriteMatchShp
    \/ ReturnMatchSummary

SpecMatch == InitMatch /\ [][NextMatch]_vars

----
\* The inputs of the merge.  ACQ_DATE is text; LATITUDE and LONGITUDE are
\* hundredths of a degree or null.
MaxSources == 2
MaxRecords == 3

RawDates == { "10-01-2020", "10/01/2020", "11-01-2020" }
Instruments == { "MODIS", "modis", "VIIRS" }
Latitudes == { <<461>> }
PreferValues == { "MODIS", "modis" }

FirmsRows ==
    { [ACQ_DATE |-> <<d>>, LATITUDE |-> lat, LONGITUDE |-> <<-7408>>,
       INSTRUMENT |-> <<ins>>] :
        d \in RawDates, lat \in Latitudes, ins \in Instruments }

\* The ways to cut a table into k tables, none of them empty.
RECURSIVE Splits(_, _)
Splits(rows, k) ==
    IF k = 1
    THEN { <<rows>> }
    ELSE UNION { { <<SubSeq(rows, 1, c)>> \o rest :
                      rest \in Splits(SubSeq(rows, c + 1, Len(rows)), k - 1) } :
                 c \in 1..(Len(rows) - (k - 1)) }

\* Records whose LATITUDE is null, text or a number.
NullableLatitudes == { None, Text("n/a"), <<461>> }
NullKeyRows ==
    { [ACQ_DATE |-> <<d>>, LATITUDE |-> lat, LONGITUDE |-> <<-7408>>,
       INSTRUMENT |-> <<ins>>] :
        d \in {"10-01-2020", "11-01-2020"}, lat \in NullableLatitudes,
        ins \in {"MODIS", "VIIRS"} }
NullKeyShpInputs(n_paths, n_rows) ==
    UNION { UNION { Splits(rows, k) : k \in { n \in 1..n_paths : n <= Len(rows) } } :
            rows \in SeqsUpTo(NullKeyRows, n_rows) \ {<<>>} }

\* read_shps: one table per path, none of them empty.
ShpInputs(n_paths, n_rows) ==
    UNION { UNION { Splits(rows, k) : k \in { n \in 1..n_paths : n <= Len(rows) } } :
            rows \in SeqsUpTo(FirmsRows, n_rows) \ {<<>>} }

\* required_cols, and the columns of a layer that has them all
RequiredFields == { "ACQ_DATE", "LATITUDE", "LONGITUDE", "INSTRUMENT" }
AllFields == RequiredFields \cup { "geometry" }

FullLayers(ss) == [i \in 1..Len(ss) |-> Layer(AllFields, ss[i])]

SampleRow ==
    [ACQ_DATE |-> <<"10-01-2020">>, LATITUDE |-> <<461>>, LONGITUDE |-> <<-7408>>,
     INSTRUMENT |-> <<"MODIS">>]

\* paths with a file that is not there or a layer without records
FaultyShpFiles ==
    { <<NoSuchFile>>, <<Layer(AllFields, <<>>)>>,
      <<Layer(AllFields, <<SampleRow>>), NoSuchFile>>,
      <<Layer(AllFields, <<SampleRow>>), Layer(AllFields, <<>>)>> }

\* A layer of one record without the columns of lacking.
LackingLayer(lacking) ==
    Layer(AllFields \ lacking,
          << [f \in DOMAIN SampleRow |-> IF f \in lacking THEN None ELSE SampleRow[f]] >>)

\* paths whose layers lack at most one required field each, one of them at the
\* least lacking one.
LackingShpFiles(n_paths) ==
    LET layers == { LackingLayer(lacking) :
                      lacking \in { {} } \cup { {f} : f \in RequiredFields } }
    IN  { files \in SeqsUpTo(layers, n_paths) :
            \E i \in 1..Len(files) : ~(RequiredFields \subseteq files[i].columns) }

----
\* firms_merge.py

\* read_shps: the tables in the order of paths; the first path without a file
\* or with an empty layer ends the reading.
read_shps(files) ==
    LET bad == { i \in 1..Len(files) : ~files[i].exists \/ files[i].rows = <<>> }
    IN  IF bad = {}
        THEN Return(files)
        ELSE IF ~files[SetMin(bad)].exists
        THEN Raise("DataSourceError", "No such file or directory")
        ELSE Raise("ValueError", "Shapefile vacío")

\* The columns of pd.concat(gdfs): every column of every table; a table without
\* a column gets null cells in it.
concat_columns(cols) == UNION { cols[i] : i \in 1..Len(cols) }

\* validate_required_fields(gdf, required)
validate_required_fields(cols, required) ==
    IF required \subseteq cols
    THEN Return(TRUE)
    ELSE Raise("ValueError", "Faltan campos requeridos")

\* pd.concat(gdfs, ignore_index=True): the tables one after the other, the rows
\* labelled 0, 1, ... in that order.
concat_geodataframes(ss) ==
    LET rows == Flatten(ss)
    IN  [i \in 1..Len(rows) |->
            [index |-> i - 1, ACQ_DATE |-> rows[i].ACQ_DATE,
             LATITUDE |-> rows[i].LATITUDE, LONGITUDE |-> rows[i].LONGITUDE,
             INSTRUMENT |-> rows[i].INSTRUMENT]]

\* parse_dd_mm_yyyy: day-month-year text with "-", "/" or "." becomes ISO text;
\* null stays null; other text is returned as it is.
parse_dd_mm_yyyy(cell) ==
    IF isna(cell) THEN cell
    ELSE CASE Val(cell) = "10-01-2020" -> Some("2020-01-10")
           [] Val(cell) = "10/01/2020" -> Some("2020-01-10")
           [] Val(cell) = "10.01.2020" -> Some("2020-01-10")
           [] Val(cell) = "11-01-2020" -> Some("2020-01-11")
           [] Val(cell) = "11/01/2020" -> Some("2020-01-11")
           [] OTHER -> cell

normalize_acq_date(rows) ==
    [i \in 1..Len(rows) |->
        [index |-> rows[i].index, ACQ_DATE |-> rows[i].ACQ_DATE,
         ACQ_DATE_NORM |-> parse_dd_mm_yyyy(rows[i].ACQ_DATE),
         LATITUDE |-> rows[i].LATITUDE, LONGITUDE |-> rows[i].LONGITUDE,
         INSTRUMENT |-> rows[i].INSTRUMENT]]

\* pd.to_numeric(errors="coerce"): the numbers stay, null stays NaN, text that
\* is not a number becomes NaN.
to_numeric(cell) ==
    IF isna(cell) \/ istext(cell) THEN None ELSE Some(Val(cell))

coerce_latlon_numeric(rows) ==
    [i \in 1..Len(rows) |->
        [rows[i] EXCEPT !.LATITUDE = to_numeric(@), !.LONGITUDE = to_numeric(@)]]

\* str.upper() on the instrument names at hand.
upper(s) ==
    CASE s = "modis" -> "MODIS"
      [] s = "Modis" -> "MODIS"
      [] s = "viirs" -> "VIIRS"
      [] s = "None" -> "NONE"
      [] OTHER -> s

\* astype(str)
astype_str(cell) == IF isna(cell) THEN "None" ELSE Val(cell)

\* The instruments compared as they are written.
priority_case_sensitive(r, prefer) ==
    IF astype_str(r.INSTRUMENT) = prefer THEN 0 ELSE 1

\* _priority: 0 for the preferred instrument, 1 for the others.
priority(r, prefer) ==
    IF upper(astype_str(r.INSTRUMENT)) = upper(prefer) THEN 0 ELSE 1

\* The raw date in the key in place of the normalized one.
DedupKey_raw_date(r) == <<r.ACQ_DATE, r.LATITUDE, r.LONGITUDE>>

\* A null cell equal to no other cell: a row with a null key cell is a key of
\* its own.
DedupKey_null_distinct(r) ==
    <<r.ACQ_DATE_NORM, r.LATITUDE, r.LONGITUDE,
      IF <<>> \in {r.ACQ_DATE_NORM, r.LATITUDE, r.LONGITUDE} THEN r.index ELSE -1>>

\* dedup_keys = ("ACQ_DATE_NORM", "LATITUDE", "LONGITUDE"); null cells compare
\* equal in drop_duplicates.
DedupKey(r) == <<r.ACQ_DATE_NORM, r.LATITUDE, r.LONGITUDE>>

RowOrders(n) ==
    { f \in [1..n -> 1..n] : \A a, b \in 1..n : a # b => f[a] # f[b] }

\* sort_values(by=["_priority"]): one sort column, so numpy's default quicksort,
\* which is not stable: any order of the rows that is ascending in _priority.
sort_values_by_priority(rows, prefer) ==
    { [a \in 1..Len(rows) |-> rows[f[a]]] :
        f \in { h \in RowOrders(Len(rows)) :
                  \A a, b \in 1..Len(rows) :
                      a < b => priority(rows[h[a]], prefer) <= priority(rows[h[b]], prefer) } }

\* A row compared with the row just before it only.
RECURSIVE drop_duplicates_adjacent(_)
drop_duplicates_adjacent(rows) ==
    IF rows = <<>> THEN <<>>
    ELSE LET front == drop_duplicates_adjacent(SubSeq(rows, 1, Len(rows) - 1))
             last == rows[Len(rows)]
         IN  IF Len(rows) > 1 /\ DedupKey(rows[Len(rows) - 1]) = DedupKey(last)
             THEN front ELSE Append(front, last)

\* drop_duplicates(subset=keys, keep="first")
RECURSIVE drop_duplicates_subset(_)
drop_duplicates_subset(rows) ==
    IF rows = <<>> THEN <<>>
    ELSE LET front == drop_duplicates_subset(SubSeq(rows, 1, Len(rows) - 1))
             last == rows[Len(rows)]
         IN  IF \E k \in 1..Len(front) : DedupKey(front[k]) = DedupKey(last)
             THEN front ELSE Append(front, last)

----
\* merge_firms_shps, step by step.

InitMerge ==
    /\ pc = "merge_firms_shps"
    /\ excel_rows = <<>>
    /\ df_ungrd = <<>>
    /\ gdf_firms = <<>>
    /\ merged = <<>>
    /\ gdf_firms_reset = <<>>
    /\ window_days = None
    /\ matches = <<>>
    /\ gdf_out = <<>>
    /\ schemas = <<>>
    /\ gdfs = <<>>
    /\ prefer_value = None
    /\ g = <<>>
    /\ g_sorted = <<>>
    /\ g_out = <<>>
    /\ dropped = None
    /\ before = None
    /\ final_path = None
    /\ summary = None
    /\ fs = NoFiles
    /\ SamplerIdle
    /\ ToolsIdle
    /\ NoWriters

\* gdfs = read_shps(paths) over the files given.
ReadFiles(files) ==
    /\ pc = "merge_firms_shps"
    /\ IF read_shps(files).raised = None
       THEN /\ gdfs' = [i \in 1..Len(files) |-> files[i].rows]
            /\ schemas' = [i \in 1..Len(files) |-> files[i].columns]
            /\ pc' = "shps_read"
       ELSE /\ gdfs' = <<>>
            /\ schemas' = <<>>
            /\ pc' = "raised"
    /\ error' = read_shps(files).raised
    /\ UNCHANGED <<prefer_value, g, g_sorted, g_out, dropped, before, final_path, summary>>
    /\ UNCHANGED <<matchVars, fs, samplerState, writeVars, toolVars>>

ReadShps ==
    /\ pc = "merge_firms_shps"
    /\ \E files \in { FullLayers(ss) : ss \in ShpInputs(MaxSources, MaxRecords) }
                       \cup FaultyShpFiles :
          ReadFiles(files)

ConcatGeodataframes ==
    /\ pc = "shps_read"
    /\ g' = concat_geodataframes(gdfs)
    /\ pc' = "concatenated"
    /\ UNCHANGED <<schemas, gdfs, prefer_value, g_sorted, g_out, dropped, before, final_path, summary>>
    /\ UNCHANGED <<matchVars, restVars>>

\* The output file is created before the fields are validated.
ValidateRequiredFields_output_created ==
    /\ pc = "concatenated"
    /\ fs' = to_file(fs, "out.shp", <<>>)
    /\ error' = validate_required_fields(concat_columns(schemas), RequiredFields).raised
    /\ pc' = IF validate_required_fields(concat_columns(schemas), RequiredFields).raised = <<>>
             THEN "fields_validated" ELSE "raised"
    /\ UNCHANGED <<schemas, gdfs, prefer_value, g, g_sorted, g_out, dropped, before, final_path,
                   summary>>
    /\ UNCHANGED <<matchVars, samplerState, writeVars, toolVars>>

\* validate_required_fields(g, required_cols), on the table concat_geodataframes
\* returned.
ValidateRequiredFields ==
    /\ pc = "concatenated"
    /\ error' = validate_required_fields(concat_columns(schemas), RequiredFields).raised
    /\ pc' = IF validate_required_fields(concat_columns(schemas), RequiredFields).raised = None
             THEN "fields_validated" ELSE "raised"
    /\ UNCHANGED <<schemas, gdfs, prefer_value, g, g_sorted, g_out, dropped, before, final_path,
                   summary>>
    /\ UNCHANGED <<matchVars, fs, samplerState, writeVars, toolVars>>

NormalizeAcqDate ==
    /\ pc = "fields_validated"
    /\ g' = normalize_acq_date(g)
    /\ pc' = "dates_normalized"
    /\ UNCHANGED <<schemas, gdfs, prefer_value, g_sorted, g_out, dropped, before, final_path, summary>>
    /\ UNCHANGED <<matchVars, restVars>>

CoerceLatLonNumeric ==
    /\ pc = "dates_normalized"
    /\ g' = coerce_latlon_numeric(g)
    /\ pc' = "latlon_coerced"
    /\ UNCHANGED <<schemas, gdfs, prefer_value, g_sorted, g_out, dropped, before, final_path, summary>>
    /\ UNCHANGED <<matchVars, restVars>>

DeduplicatePreferInstrument ==
    /\ pc = "latlon_coerced"
    /\ \E pv \in PreferValues :
          /\ prefer_value' = Some(pv)
          /\ \E sorted \in sort_values_by_priority(g, pv) :
                /\ g_sorted' = sorted
                /\ g_out' = drop_duplicates_subset(sorted)
                /\ dropped' = Some(Len(g) - Len(drop_duplicates_subset(sorted)))
    /\ before' = Some(Len(g))
    /\ pc' = "deduplicated"
    /\ UNCHANGED <<schemas, gdfs, g, final_path, summary>>
    /\ UNCHANGED <<matchVars, restVars>>

\* write_shp(g, out_path, version=version_out) of firms_merge.py.
MergeOutPath == "out.shp"

WriteMergedShp ==
    /\ pc = "deduplicated"
    /\ \E version \in BOOLEAN :
          LET path == IF version THEN next_version_path(fs, MergeOutPath) ELSE MergeOutPath
          IN  /\ final_path' = Some(path)
              /\ fs' = to_file(fs, path, g_out)
    /\ pc' = "written"
    /\ UNCHANGED <<schemas, gdfs, prefer_value, g, g_sorted, g_out, dropped, before, summary>>
    /\ UNCHANGED <<matchVars, sampleVars, writeVars, toolVars>>

\* n_features_in is len(g) once g is the table returned: the count after, not before.
MergeSummary_in_after_dedup(n_inputs, n_before, gdf, n_dropped) ==
    [n_inputs |-> n_inputs, n_features_in |-> Len(gdf),
     n_features_out |-> Len(gdf), n_dropped_dupes |-> n_dropped]

MergeSummary(n_inputs, n_before, gdf, n_dropped) ==
    [n_inputs |-> n_inputs, n_features_in |-> n_before,
     n_features_out |-> Len(gdf), n_dropped_dupes |-> n_dropped]

ReturnMergeSummary ==
    /\ pc = "written"
    /\ summary' = Some(MergeSummary(Len(gdfs), Val(before), g_out, Val(dropped)))
    /\ pc' = "returned"
    /\ UNCHANGED <<schemas, gdfs, prefer_value, g, g_sorted, g_out, dropped, before, final_path, fs>>
    /\ UNCHANGED <<matchVars, sampleVars, writeVars, toolVars>>

NextMerge ==
    \/ ReadShps
    \/ ConcatGeodataframes
    \/ ValidateRequiredFields
    \/ NormalizeAcqDate
    \/ CoerceLatLonNumeric
    \/ DeduplicatePreferInstrument
    \/ WriteMergedShp
    \/ ReturnMergeSummary

SpecMerge == InitMerge /\ [][NextMerge]_vars

\* merge_firms_shps over the records with null and text latitudes.
ReadShpsNullKeys ==
    /\ pc = "merge_firms_shps"
    /\ \E ss \in NullKeyShpInputs(MaxSources, MaxRecords) : ReadFiles(FullLayers(ss))

NextMergeNullKeys ==
    \/ ReadShpsNullKeys
    \/ ConcatGeodataframes
    \/ ValidateRequiredFields
    \/ NormalizeAcqDate
    \/ CoerceLatLonNumeric
    \/ DeduplicatePreferInstrument
    \/ WriteMergedShp
    \/ ReturnMergeSummary

SpecMergeNullKeys == InitMerge /\ [][NextMergeNullKeys]_vars

\* merge_firms_shps over layers that lack required fields.
ReadShpsLacking ==
    /\ pc = "merge_firms_shps"
    /\ \E files \in LackingShpFiles(MaxSources) : ReadFiles(files)

NextMergeLacking ==
    \/ ReadShpsLacking
    \/ ConcatGeodataframes
    \/ ValidateRequiredFields
    \/ NormalizeAcqDate
    \/ CoerceLatLonNumeric
    \/ DeduplicatePreferInstrument
    \/ WriteMergedShp
    \/ ReturnMergeSummary

SpecMergeLacking == InitMerge /\ [][NextMergeLacking]_vars

----
\* random_absence_points.py: the geometry.  Coordinates are whole metres of the
\* target CRS and a point is <<x, y>>.  A polygon of the AOI is a rectangle
\* <<x0, y0, x1, y1>> with whole corners, or the empty geometry.
EmptyGeom == <<>>
Rect(x0, y0, x1, y1) == <<x0, y0, x1, y1>>

\* unary_union(aoi.geometry): the region covered by the polygons that are not
\* empty, as the set of those polygons.
unary_union(geoms) == { geoms[i] : i \in 1..Len(geoms) } \ {EmptyGeom}

\* The unit cell <<i, j>> is the square [i, i+1] x [j, j+1].
CellsOf(rect) == (rect[1]..(rect[3] - 1)) \X (rect[2]..(rect[4] - 1))
CellsOfUnion(U) == UNION { CellsOf(r) : r \in U }
Corners(c) ==
    { <<c[1], c[2]>>, <<c[1] + 1, c[2]>>, <<c[1], c[2] + 1>>, <<c[1] + 1, c[2] + 1>> }

\* The cells that meet at the point q.
CellsAround(q) ==
    { <<q[1] - 1, q[2] - 1>>, <<q[1], q[2] - 1>>, <<q[1] - 1, q[2]>>, <<q[1], q[2]>> }

\* Point.buffer(r): GEOS returns a polygon whose vertices lie on the circle of
\* radius r, a fixed number of them to the quarter circle, not the disk.  Here
\* r is a multiple of 5 and the vertices are the twelve points of the circle
\* that are whole multiples of r/5: (r, 0), (4r/5, 3r/5), (3r/5, 4r/5), (0, r)
\* and their mirror images.  A radius of 0 or less gives the empty polygon.
buffer(p, r) == [center |-> p, radius |-> r]

\* q is in the closed polygon b.
InBuffer(q, b) ==
    /\ b.radius > 0
    /\ LET dx == Abs(q[1] - b.center[1])
           dy == Abs(q[2] - b.center[2])
       IN  /\ 3 * dx + dy <= 3 * b.radius
           /\ 5 * (dx + dy) <= 7 * b.radius
           /\ dx + 3 * dy <= 3 * b.radius

\* unary_union(pts.geometry.buffer(buffer_m))
buffer_union(points, r) == { buffer(points[i], r) : i \in 1..Len(points) }

\* aoi_geom.difference(buffer_union)
difference(U, B) == [aoi |-> U, buffers |-> B]

\* A cell inside one of the buffers.
Covered(c, B) == \E b \in B : \A q \in Corners(c) : InBuffer(q, b)

\* The cells of the AOI that the buffers leave some area of.
FreeCells(geom) == { c \in CellsOfUnion(geom.aoi) : ~Covered(c, geom.buffers) }

\* geom.is_empty
is_empty(geom) == FreeCells(geom) = {}


\* geom.bounds: <<minx, miny, maxx, maxy>>, the box of the cells with area left.
\* (The bounds of an empty geometry are NaN; no draw is then inside.)
bounds(geom) ==
    LET free == FreeCells(geom)
    IN  IF free = {} THEN <<0, 0, 0, 0>>
        ELSE <<SetMin({ c[1] : c \in free }), SetMin({ c[2] : c \in free }),
               SetMax({ c[1] : c \in free }) + 1, SetMax({ c[2] : c \in free }) + 1>>

\* geom.contains(p): p is in the interior of the region, its boundary excluded.
\* The interior of the AOI at a whole point is the four cells around it; the
\* buffers are closed.
contains(geom, q) ==
    /\ CellsAround(q) \subseteq CellsOfUnion(geom.aoi)
    /\ \A b \in geom.buffers : ~InBuffer(q, b)

\* The emptiness of the difference is not looked at.
build_allowed_zone_unchecked(aoi_geoms, points, r) ==
    IF unary_union(aoi_geoms) = {}
    THEN Raise("ValueError", "AOI unificado quedó vacío.")
    ELSE Return(difference(unary_union(aoi_geoms), buffer_union(points, r)))

build_allowed_zone(aoi_geoms, points, r) ==
    IF unary_union(aoi_geoms) = {}
    THEN Raise("ValueError", "AOI unificado quedó vacío.")
    ELSE IF is_empty(difference(unary_union(aoi_geoms), buffer_union(points, r)))
    THEN Raise("ValueError", "Zona permitida vacía (AOI - buffer).")
    ELSE Return(difference(unary_union(aoi_geoms), buffer_union(points, r)))

----
\* The generator.  np.random.default_rng(seed) is a generator of its own whose
\* stream is a function of the seed; it is a linear congruential generator here.
RngModulus == 256
RngMultiplier == 141
RngIncrement == 3

\* One generator for the process, seeded once: a later call goes on where the
\* call before it stopped.
shared_rng(sd, current) == IF current = <<>> THEN Some(sd % RngModulus) ELSE current

\* rng = np.random.default_rng(seed), whatever generator there was before.
default_rng(sd, current) == Some(sd % RngModulus)

rng_next(state) == (RngMultiplier * state + RngIncrement) % RngModulus

\* rng.uniform(lo, hi) read off the state: a whole number of [lo, hi), lo if the
\* interval is empty.
uniform(state, lo, hi) == lo + ((hi - lo) * state) \div RngModulus

\* max_attempts = n_points * max_attempts_factor
max_attempts == Val(n_points) * Val(max_attempts_factor)

\* The loop goes on until there are enough points, whatever the attempts.
keep_sampling_while_short(got, wanted, tried, budget) == got < wanted

\* The loop goes on until the attempts are spent, whatever the points.
keep_sampling_until_budget(got, wanted, tried, budget) == tried < budget

\* while len(pts) < n_points and attempts < max_attempts
keep_sampling(got, wanted, tried, budget) == got < wanted /\ tried < budget

\* The error whenever the budget is spent, enough points or not.
too_few_when_budget_spent(got, wanted, tried, budget) == tried >= budget

\* if len(pts) < n_points: raise RuntimeError
too_few(got, wanted, tried, budget) == got < wanted

----
\* The inputs of the sampler.
MaxRequested == 2
MaxFactor == 2

\* seed: int = 42
DefaultSeed == 42

AoiTables ==
    { <<Rect(0, 0, 12, 6)>>,
      <<Rect(0, 0, 6, 6), Rect(6, 0, 12, 6)>>,
      <<Rect(0, 0, 12, 6), EmptyGeom>>,
      <<Rect(0, 0, 4, 4)>>,
      <<Rect(0, 0, 1, 1)>>,
      <<EmptyGeom>> }
ExclusionTables ==
    { << <<0, 0>> >>, << <<0, 0>>, <<12, 0>> >>, << <<-20, 0>> >> }
BufferRadii == {0, 5, 10}
Seeds == {DefaultSeed, 26}

\* What is found at aoi_path and at points_path: no file, or a layer with its CRS
\* (null when the layer has none) and its geometries.
MissingGeoFile == [exists |-> FALSE, crs |-> None, rows |-> <<>>]
GeoFile(crs, rows) == [exists |-> TRUE, crs |-> crs, rows |-> rows]

\* crs_target: str = "EPSG:9377"
TargetCrs == "EPSG:9377"

AoiFiles ==
    { GeoFile(Some(TargetCrs), t) : t \in AoiTables \cup {<<>>} }
        \cup { MissingGeoFile, GeoFile(None, <<Rect(0, 0, 12, 6)>>) }
PointsFiles ==
    { GeoFile(Some(TargetCrs), t) : t \in ExclusionTables \cup {<<>>} }
        \cup { MissingGeoFile, GeoFile(None, << <<0, 0>> >>) }

\* load_and_project: the checks in their order; the layers are in crs_target.
load_and_project(a, p) ==
    IF ~a.exists THEN Raise("FileNotFoundError", "No existe AOI")
    ELSE IF ~p.exists THEN Raise("FileNotFoundError", "No existe puntos")
    ELSE IF a.rows = <<>> THEN Raise("ValueError", "AOI vacío.")
    ELSE IF p.rows = <<>> THEN Raise("ValueError", "Puntos FIRMS vacío.")
    ELSE IF isna(a.crs) THEN Raise("ValueError", "AOI sin CRS.")
    ELSE IF isna(p.crs) THEN Raise("ValueError", "Puntos sin CRS.")
    ELSE Return(<<a.rows, p.rows>>)

----
\* run_random_absence_sampling, step by step.

InitSample ==
    /\ pc = "run_random_absence_sampling"
    /\ excel_rows = <<>>
    /\ df_ungrd = <<>>
    /\ gdf_firms = <<>>
    /\ merged = <<>>
    /\ gdf_firms_reset = <<>>
    /\ window_days = None
    /\ matches = <<>>
    /\ gdf_out = <<>>
    /\ schemas = <<>>
    /\ gdfs = <<>>
    /\ prefer_value = None
    /\ g = <<>>
    /\ g_sorted = <<>>
    /\ g_out = <<>>
    /\ dropped = None
    /\ before = None
    /\ final_path = None
    /\ summary = None
    /\ fs = NoFiles
    /\ SamplerIdle
    /\ ToolsIdle
    /\ NoWriters

\* load_and_project: the tables read; an empty table is an error.
LoadAndProject ==
    /\ pc = "run_random_absence_sampling"
    /\ \E a \in AoiFiles, p \in PointsFiles :
          /\ aoi' = a.rows
          /\ pts' = p.rows
          /\ error' = load_and_project(a, p).raised
          /\ pc' = IF load_and_project(a, p).raised = None THEN "loaded" ELSE "raised"
    /\ UNCHANGED <<box, buffer_m, allowed, n_points, seed, max_attempts_factor, rng,
                   rand_points, attempts, draws, call, first_call, final_out,
                   sampling_summary>>
    /\ UNCHANGED <<matchVars, mergeVars, fs, writeVars, toolVars>>

BuildAllowedZone ==
    /\ pc = "loaded"
    /\ \E r \in BufferRadii :
          /\ buffer_m' = Some(r)
          /\ allowed' = build_allowed_zone(aoi, pts, r).value
          /\ error' = build_allowed_zone(aoi, pts, r).raised
          /\ pc' = IF build_allowed_zone(aoi, pts, r).raised = None
                   THEN "zone_built" ELSE "raised"
    /\ UNCHANGED <<box, aoi, pts, n_points, seed, max_attempts_factor, rng,
                   rand_points, attempts, draws, call, first_call, final_out,
                   sampling_summary>>
    /\ UNCHANGED <<matchVars, mergeVars, fs, writeVars, toolVars>>

\* generate_random_points_in_geom up to the loop: the generator, the bounds of
\* the region, the empty list, the count of attempts.
GenerateStart ==
    /\ pc = "zone_built"
    /\ \E n \in 0..MaxRequested, sd \in Seeds, f \in 0..MaxFactor :
          /\ n_points' = Some(n)
          /\ seed' = Some(sd)
          /\ max_attempts_factor' = Some(f)
          /\ rng' = default_rng(sd, rng)
    /\ box' = Some(bounds(Val(allowed)))
    /\ rand_points' = <<>>
    /\ attempts' = 0
    /\ draws' = <<>>
    /\ call' = 1
    /\ pc' = "sampling"
    /\ UNCHANGED <<aoi, pts, buffer_m, allowed, error, first_call, final_out,
                   sampling_summary>>
    /\ UNCHANGED <<matchVars, mergeVars, fs, writeVars, toolVars>>

\* One turn of the loop: a draw of x, a draw of y, the test, the count.
SampleAttempt ==
    /\ pc = "sampling"
    /\ keep_sampling(Len(rand_points), Val(n_points), attempts, max_attempts)
    /\ LET s1 == rng_next(Val(rng))
           s2 == rng_next(s1)
           p == <<uniform(s1, Val(box)[1], Val(box)[3]), uniform(s2, Val(box)[2], Val(box)[4])>>
       IN  /\ rng' = Some(s2)
           /\ draws' = Append(draws, p)
           /\ rand_points' = IF contains(Val(allowed), p)
                             THEN Append(rand_points, p) ELSE rand_points
    /\ attempts' = attempts + 1
    /\ UNCHANGED <<box, pc, aoi, pts, buffer_m, allowed, n_points, seed, max_attempts_factor,
                   error, call, first_call, final_out, sampling_summary>>
    /\ UNCHANGED <<matchVars, mergeVars, fs, writeVars, toolVars>>

\* The loop is left: the error if there are too few points, the list otherwise.
SampleExit ==
    /\ pc = "sampling"
    /\ ~keep_sampling(Len(rand_points), Val(n_points), attempts, max_attempts)
    /\ IF too_few(Len(rand_points), Val(n_points), attempts, max_attempts)
       THEN /\ error' = Some([kind |-> "RuntimeError", generated |-> Len(rand_points),
                              requested |-> Val(n_points), attempts |-> attempts])
            /\ pc' = "raised"
       ELSE /\ error' = None
            /\ pc' = "sampled"
    /\ UNCHANGED <<box, aoi, pts, buffer_m, allowed, n_points, seed, max_attempts_factor, rng,
                   rand_points, attempts, draws, call, first_call, final_out,
                   sampling_summary>>
    /\ UNCHANGED <<matchVars, mergeVars, fs, writeVars, toolVars>>

\* write_points_shp(rand_points, out_path, crs_target, version=True)
SampleOutPath == "out.shp"

WritePointsShp ==
    /\ pc = "sampled"
    /\ final_out' = Some(next_version_path_suffix_1(fs, SampleOutPath))
    /\ fs' = to_file(fs, next_version_path_suffix_1(fs, SampleOutPath), rand_points)
    /\ pc' = "points_written"
    /\ UNCHANGED <<box, aoi, pts, buffer_m, allowed, n_points, seed, max_attempts_factor, rng,
                   rand_points, attempts, draws, error, call, first_call,
                   sampling_summary>>
    /\ UNCHANGED <<matchVars, mergeVars, writeVars, toolVars>>

SamplingSummary(n, points, r, sd, out) ==
    [n_requested |-> n, n_generated |-> Len(points), buffer_m |-> r, seed |-> sd,
     out_path |-> out]

ReturnSamplingSummary ==
    /\ pc = "points_written"
    /\ sampling_summary' =
          Some(SamplingSummary(Val(n_points), rand_points, Val(buffer_m), Val(seed),
                               Val(final_out)))
    /\ pc' = "sampling_returned"
    /\ UNCHANGED <<box, aoi, pts, buffer_m, allowed, n_points, seed, max_attempts_factor, rng,
                   rand_points, attempts, draws, error, call, first_call, final_out>>
    /\ UNCHANGED <<matchVars, mergeVars, fs, writeVars, toolVars>>

NextSample ==
    \/ LoadAndProject
    \/ BuildAllowedZone
    \/ GenerateStart
    \/ SampleAttempt
    \/ SampleExit
    \/ WritePointsShp
    \/ ReturnSamplingSummary

SpecSample == InitSample /\ [][NextSample]_vars

\* The program runs on: a step that can be taken is taken.
SpecSampleFair == SpecSample /\ WF_vars(NextSample)

\* generate_random_points_in_geom called a second time with the arguments of
\* the first call, once the first call has returned or raised.
SamplerFinished ==
    \/ pc = "sampled"
    \/ pc = "raised" /\ error # <<>> /\ error[1].kind = "RuntimeError"

GenerateAgain ==
    /\ SamplerFinished
    /\ call = 1
    /\ first_call' = Some([rand_points |-> rand_points, draws |-> draws,
                           attempts |-> attempts, error |-> error])
    /\ rng' = default_rng(Val(seed), rng)
    /\ box' = Some(bounds(Val(allowed)))
    /\ rand_points' = <<>>
    /\ attempts' = 0
    /\ draws' = <<>>
    /\ error' = None
    /\ call' = 2
    /\ pc' = "sampling"
    /\ UNCHANGED <<aoi, pts, buffer_m, allowed, n_points, seed, max_attempts_factor,
                   final_out, sampling_summary>>
    /\ UNCHANGED <<matchVars, mergeVars, fs, writeVars, toolVars>>

NextSampleTwice ==
    \/ LoadAndProject
    \/ BuildAllowedZone
    \/ GenerateStart
    \/ SampleAttempt
    \/ SampleExit
    \/ GenerateAgain

SpecSampleTwice == InitSample /\ [][NextSampleTwice]_vars

----
\* The writers on their own: write_shp of firms_merge.py, which versions with
\* next_version_path, and write_shp of firms_ungrd_match.py and write_points_shp
\* of random_absence_points.py, which version with next_version_path_suffix_1.
\* A call resolves its path, then writes the file; these are two steps.
MaxWrites == 2

OutPaths == { "out.shp", "pts.v1.shp" }
FilesAtStart ==
    { [p \in S |-> <<0>>] :
        S \in SUBSET { "out.shp", "out_v002.shp", "out_v003.shp", "out_1.shp", "pts.v1.shp" } }

IdleWriter ==
    [pc |-> "idle", scheme |-> "", out_path |-> "", version |-> FALSE,
     seen |-> {}, final |-> "", content |-> <<>>]

\* The calls made so far, finished or not.
Calls == Len(written) + Cardinality({ w \in DOMAIN writer : writer[w].pc = "resolved" })

InitWriter ==
    /\ pc = "write_shp"
    /\ excel_rows = <<>>
    /\ df_ungrd = <<>>
    /\ gdf_firms = <<>>
    /\ merged = <<>>
    /\ gdf_firms_reset = <<>>
    /\ window_days = None
    /\ matches = <<>>
    /\ gdf_out = <<>>
    /\ schemas = <<>>
    /\ gdfs = <<>>
    /\ prefer_value = None
    /\ g = <<>>
    /\ g_sorted = <<>>
    /\ g_out = <<>>
    /\ dropped = None
    /\ before = None
    /\ final_path = None
    /\ summary = None
    /\ SamplerIdle
    /\ ToolsIdle
    /\ fs \in FilesAtStart
    /\ writer = [w \in {1} |-> IdleWriter]
    /\ written = <<>>

\* write_shp of firms_merge.py up to the call of to_file:
\* final_path = next_version_path(out_path) if version else out_path
ResolveVersioned(w) ==
    /\ writer[w].pc = "idle"
    /\ Calls < MaxWrites
    /\ \E out \in OutPaths, version \in BOOLEAN :
          writer' = [writer EXCEPT ![w] =
              [pc |-> "resolved", scheme |-> "_v", out_path |-> out, version |-> version,
               seen |-> DOMAIN fs,
               final |-> IF version THEN next_version_path(fs, out) ELSE out,
               content |-> <<w, Calls + 1>>]]
    /\ UNCHANGED <<pc, fs, written, matchVars, mergeVars, sampleVars, toolVars>>

\* write_shp of firms_ungrd_match.py and write_points_shp up to the call of
\* to_file: final = next_version_path_suffix_1(out_path) if version else out_path
ResolveSuffixed(w) ==
    /\ writer[w].pc = "idle"
    /\ Calls < MaxWrites
    /\ \E out \in OutPaths, version \in BOOLEAN :
          writer' = [writer EXCEPT ![w] =
              [pc |-> "resolved", scheme |-> "_", out_path |-> out, version |-> version,
               seen |-> DOMAIN fs,
               final |-> IF version THEN next_version_path_suffix_1(fs, out) ELSE out,
               content |-> <<w, Calls + 1>>]]
    /\ UNCHANGED <<pc, fs, written, matchVars, mergeVars, sampleVars, toolVars>>

\* gdf.to_file(final_path) and the return.
ToFile(w) ==
    /\ writer[w].pc = "resolved"
    /\ fs' = to_file(fs, writer[w].final, writer[w].content)
    /\ written' = Append(written,
          [proc |-> w, scheme |-> writer[w].scheme, out_path |-> writer[w].out_path,
           version |-> writer[w].version, seen |-> writer[w].seen,
           final |-> writer[w].final, content |-> writer[w].content,
           existed |-> exists(fs, writer[w].final)])
    /\ writer' = [writer EXCEPT ![w] = IdleWriter]
    /\ UNCHANGED <<pc, matchVars, mergeVars, sampleVars, toolVars>>

NextWriter ==
    \/ \E w \in DOMAIN writer : ResolveVersioned(w)
    \/ \E w \in DOMAIN writer : ResolveSuffixed(w)
    \/ \E w \in DOMAIN writer : ToFile(w)

\* One process: its writes come one after the other.
SpecWriter == InitWriter /\ [][NextWriter]_vars

\* Two processes that write to one directory, with nothing to order their steps.
InitWriters ==
    /\ pc = "write_shp"
    /\ excel_rows = <<>>
    /\ df_ungrd = <<>>
    /\ gdf_firms = <<>>
    /\ merged = <<>>
    /\ gdf_firms_reset = <<>>
    /\ window_days = None
    /\ matches = <<>>
    /\ gdf_out = <<>>
    /\ schemas = <<>>
    /\ gdfs = <<>>
    /\ prefer_value = None
    /\ g = <<>>
    /\ g_sorted = <<>>
    /\ g_out = <<>>
    /\ dropped = None
    /\ before = None
    /\ final_path = None
    /\ summary = None
    /\ SamplerIdle
    /\ ToolsIdle
    /\ fs \in FilesAtStart
    /\ writer = [w \in {1, 2} |-> IdleWriter]
    /\ written = <<>>

SpecWriters == InitWriters /\ [][NextWriter]_vars

----
\* shp_reprojector.py and shp_clip.py: the batch walkers.  A file of root_folder
\* is [stem, parts, ext, layer]: its name is the stem, then the suffixes put on
\* it ("_wgs84", "_recorte", "_v002"), then the extension.  layer is what
\* gpd.read_file makes of it: "unreadable" raises, "empty" has no features,
\* "no_crs" has no CRS, "outside" does not intersect the AOI, "sliver"
\* intersects it and clips to nothing, "ok" is none of these.
MaxFiles == 3

Layers == { "ok", "empty", "no_crs", "unreadable", "outside", "sliver" }

\* Two files to a stem, so that an output can find its name taken.
StemOf(i) == IF i <= 2 THEN "a" ELSE "b"

\* The file name, as os.walk lists it.
filename(e) == e.stem \o Concat(e.parts) \o e.ext

FilesOfSlot(i) ==
    { [stem |-> StemOf(i), parts |-> p, ext |-> ".shp", layer |-> l] :
        p \in { <<>>, <<"_wgs84">> }, l \in Layers }
    \cup { [stem |-> StemOf(i), parts |-> p, ext |-> ".SHP", layer |-> "ok"] :
            p \in { <<>>, <<"_wgs84">> } }
    \cup { [stem |-> StemOf(i), parts |-> <<>>, ext |-> ".dbf", layer |-> "ok"],
           [stem |-> StemOf(i), parts |-> <<"_wgs84", "_recorte">>, ext |-> ".shp",
            layer |-> "ok"] }

\* The listings of k files, the i-th from slot i.
RECURSIVE Listings(_)
Listings(k) ==
    IF k = 0 THEN { <<>> }
    ELSE { Append(f, e) : f \in Listings(k - 1), e \in FilesOfSlot(k) }

\* The folders of at most n files, no name twice.
Folders(n) ==
    { f \in UNION { Listings(k) : k \in 0..n } :
        \A i, j \in DOMAIN f : filename(f[i]) = filename(f[j]) => i = j }

\* str.lower() of an extension.
lower(ext) == IF ext = ".SHP" THEN ".shp" ELSE ext

\* sub in f, for a suffix sub: the stems hold no suffix.
in_name(sub, e) == \E i \in DOMAIN e.parts : e.parts[i] = sub

\* f.lower().endswith(".shp") and exclude_if_contains not in f
reproject_selects(e) == lower(e.ext) = ".shp" /\ ~in_name("_wgs84", e)

\* iter_shps: f.lower().endswith("_wgs84.shp") and exclude_contains not in f
iter_shps(files) ==
    SelectSeq(files, LAMBDA e :
        /\ lower(e.ext) = ".shp"
        /\ e.parts # <<>>
        /\ e.parts[Len(e.parts)] = "_wgs84"
        /\ ~in_name("_recorte", e))

\* The paths that exist in the folder.
FolderFiles(files) == [p \in { filename(files[i]) : i \in DOMAIN files } |-> <<0>>]

VersionParts(n) == { "_v" \o Format03d(v) : v \in 2..(n + 2) }

\* out_path = f"{fname}{suffix}.shp", versioned with next_version_path; the file
\* that to_file then creates.
OutFile(files, e, suffix, layer) ==
    LET fname == e.stem \o Concat(e.parts)
        out_shp_path == fname \o suffix \o ".shp"
        final == next_version_path(FolderFiles(files), out_shp_path)
        ver == IF final = out_shp_path
               THEN <<>>
               ELSE << CHOOSE t \in VersionParts(Len(files)) :
                          fname \o suffix \o t \o ".shp" = final >>
    IN  [stem |-> e.stem, parts |-> e.parts \o <<suffix>> \o ver, ext |-> ".shp",
         layer |-> layer]

\* reproject_one_shp: raises, or returns the file written; to_crs keeps where
\* the features lie.
reproject_one_shp(files, e) ==
    IF e.layer = "unreadable"
    THEN Raise("Exception", "read_file")
    ELSE IF e.layer = "empty"
    THEN Raise("ValueError", "El shapefile está vacío.")
    ELSE IF e.layer = "no_crs"
    THEN Raise("ValueError", "El shapefile no tiene CRS definido.")
    ELSE Return(OutFile(files, e, "_wgs84", e.layer))

\* clip_one_shp: (status, the file written).  A layer without CRS fails in
\* to_crs; every exception is caught inside.
clip_one_shp(files, e) ==
    IF e.layer = "unreadable" THEN <<"ERROR", None>>
    ELSE IF e.layer = "empty" THEN <<"CLIP_EMPTY", None>>
    ELSE IF e.layer = "no_crs" THEN <<"ERROR", None>>
    ELSE IF e.layer = "outside" THEN <<"NO_INTERSECTION", None>>
    ELSE IF e.layer = "sliver" THEN <<"CLIP_EMPTY", None>>
    ELSE <<"OK", Some(OutFile(files, e, "_recorte", "ok"))>>

ReprojectSummary == [total |-> 0, ok |-> 0, err |-> 0]
ClipSummary == [total |-> 0, clipped_ok |-> 0, no_intersection_or_empty |-> 0, err |-> 0]

\* The except clause does not count.
count_reproject_err_uncounted(s, r) ==
    IF r.raised = None
    THEN [s EXCEPT !.total = @ + 1, !.ok = @ + 1]
    ELSE [s EXCEPT !.total = @ + 1]

\* summary.total += 1, then summary.ok += 1 or, in the except clause,
\* summary.err += 1
count_reproject(s, r) ==
    IF r.raised = None
    THEN [s EXCEPT !.total = @ + 1, !.ok = @ + 1]
    ELSE [s EXCEPT !.total = @ + 1, !.err = @ + 1]

\* summary.total += 1, then the counter of the status
count_clip(s, status) ==
    IF status = "OK"
    THEN [s EXCEPT !.total = @ + 1, !.clipped_ok = @ + 1]
    ELSE IF status \in { "NO_INTERSECTION", "CLIP_EMPTY" }
    THEN [s EXCEPT !.total = @ + 1, !.no_intersection_or_empty = @ + 1]
    ELSE [s EXCEPT !.total = @ + 1, !.err = @ + 1]

InitBatch ==
    /\ pc = "batch_idle"
    /\ MatcherIdle
    /\ MergeIdle
    /\ fs = NoFiles
    /\ SamplerIdle
    /\ NoWriters
    /\ folder \in Folders(MaxFiles)
    /\ shp_files = <<>>
    /\ cursor = 0
    /\ batch_summary = None
    /\ handled = <<>>
    /\ runs = <<>>
    /\ PureIdle

\* batch_reproject_shps up to the loop: the summary and the files selected.
StartReproject ==
    /\ pc = "batch_idle"
    /\ "batch_reproject_shps" \notin DOMAIN runs
    /\ batch_summary' = Some(ReprojectSummary)
    /\ shp_files' = SelectSeq(folder, reproject_selects)
    /\ cursor' = 1
    /\ runs' = runs @@ ("batch_reproject_shps" :> [root |-> folder, summary |-> None])
    /\ pc' = "batch_reproject_shps"
    /\ UNCHANGED <<folder, handled>>
    /\ UNCHANGED <<matchVars, mergeVars, fs, sampleVars, writeVars, pureVars>>

\* One turn of the loop of batch_reproject_shps.
ReprojectFile ==
    /\ pc = "batch_reproject_shps"
    /\ cursor <= Len(shp_files)
    /\ LET r == reproject_one_shp(folder, shp_files[cursor])
       IN  /\ batch_summary' = Some(count_reproject(Val(batch_summary), r))
           /\ folder' = IF r.raised = None THEN Append(folder, Val(r.value)) ELSE folder
           /\ handled' = Append(handled,
                 [walker |-> "batch_reproject_shps", file |-> shp_files[cursor],
                  status |-> IF r.raised = None THEN "OK" ELSE "ERROR"])
    /\ cursor' = cursor + 1
    /\ UNCHANGED <<pc, shp_files, runs>>
    /\ UNCHANGED <<matchVars, mergeVars, fs, sampleVars, writeVars, pureVars>>

\* return summary
ReprojectReturn ==
    /\ pc = "batch_reproject_shps"
    /\ cursor > Len(shp_files)
    /\ runs' = [runs EXCEPT !["batch_reproject_shps"].summary = batch_summary]
    /\ batch_summary' = None
    /\ shp_files' = <<>>
    /\ cursor' = 0
    /\ pc' = "batch_idle"
    /\ UNCHANGED <<folder, handled>>
    /\ UNCHANGED <<matchVars, mergeVars, fs, sampleVars, writeVars, pureVars>>

\* batch_clip up to the loop: load_aoi, which raises on an AOI that is empty or
\* has no CRS, the summary and the files selected.
StartClip ==
    /\ pc = "batch_idle"
    /\ "batch_clip" \notin DOMAIN runs
    /\ \E aoi_layer \in { "ok", "empty", "no_crs" } :
          IF aoi_layer # "ok"
          THEN /\ pc' = "raised"
               /\ UNCHANGED <<batch_summary, shp_files, cursor, runs>>
          ELSE /\ batch_summary' = Some(ClipSummary)
               /\ shp_files' = iter_shps(folder)
               /\ cursor' = 1
               /\ runs' = runs @@ ("batch_clip" :> [root |-> folder, summary |-> None])
               /\ pc' = "batch_clip"
    /\ UNCHANGED <<folder, handled>>
    /\ UNCHANGED <<matchVars, mergeVars, fs, sampleVars, writeVars, pureVars>>

\* One turn of the loop of batch_clip.
ClipFile ==
    /\ pc = "batch_clip"
    /\ cursor <= Len(shp_files)
    /\ LET r == clip_one_shp(folder, shp_files[cursor])
       IN  /\ batch_summary' = Some(count_clip(Val(batch_summary), r[1]))
           /\ folder' = IF r[1] = "OK" THEN Append(folder, Val(r[2])) ELSE folder
           /\ handled' = Append(handled,
                 [walker |-> "batch_clip", file |-> shp_files[cursor], status |-> r[1]])
    /\ cursor' = cursor + 1
    /\ UNCHANGED <<pc, shp_files, runs>>
    /\ UNCHANGED <<matchVars, mergeVars, fs, sampleVars, writeVars, pureVars>>

\* return summary
ClipReturn ==
    /\ pc = "batch_clip"
    /\ cursor > Len(shp_files)
    /\ runs' = [runs EXCEPT !["batch_clip"].summary = batch_summary]
    /\ batch_summary' = None
    /\ shp_files' = <<>>
    /\ cursor' = 0
    /\ pc' = "batch_idle"
    /\ UNCHANGED <<folder, handled>>
    /\ UNCHANGED <<matchVars, mergeVars, fs, sampleVars, writeVars, pureVars>>

NextBatch ==
    \/ StartReproject
    \/ ReprojectFile
    \/ ReprojectReturn
    \/ StartClip
    \/ ClipFile
    \/ ClipReturn

\* The two walkers, each run once on one folder, in either order.
SpecBatch == InitBatch /\ [][NextBatch]_vars

----
\* normalize_text and normalize_columns on their own.
MaxLen == 3
MaxColumns == 3

TextChars == { "a", "A", "U+00E1", "U+0301", " ", "U+00BA" }

\* None, NaN or a string of at most n characters.
TextInputs(n) == { None } \cup { Some(t) : t \in SeqsUpTo(TextChars, n) }

InitNormalizeText ==
    /\ pc = "normalize_text"
    /\ MatcherIdle
    /\ MergeIdle
    /\ fs = NoFiles
    /\ SamplerIdle
    /\ NoWriters
    /\ BatchIdle
    /\ text \in TextInputs(MaxLen)
    /\ once = None
    /\ twice = None
    /\ columns = <<>>
    /\ final_names = None

\* once = normalize_text(text)
NormalizeText ==
    /\ pc = "normalize_text"
    /\ once' = normalize_text(text)
    /\ pc' = "normalized"
    /\ UNCHANGED <<text, twice, columnVars>>
    /\ UNCHANGED <<matchVars, mergeVars, fs, sampleVars, writeVars, batchVars>>

\* normalize_text(y)
NormalizeTextAgain ==
    /\ pc = "normalized"
    /\ twice' = normalize_text(once)
    /\ pc' = "normalized_twice"
    /\ UNCHANGED <<text, once, columnVars>>
    /\ UNCHANGED <<matchVars, mergeVars, fs, sampleVars, writeVars, batchVars>>

NextNormalizeText ==
    \/ NormalizeText
    \/ NormalizeTextAgain

SpecNormalizeText == InitNormalizeText /\ [][NextNormalizeText]_vars

\* shp_merge_folder.py: normalize_columns.  A column name is a text.
ColumnNames ==
    { <<"a">>, <<"A">>, <<"a", " ">>, <<"b">>, <<"a", "_", "2">>, <<"A", "_", "2">>,
      <<"a", " ", "2">>, <<"a", "_", "2", "_", "2">> }

\* gdf.columns: at most n names, no name twice.
ColumnLists(n) ==
    { cs \in SeqsUpTo(ColumnNames, n) : \A i, j \in DOMAIN cs : cs[i] = cs[j] => i = j }

\* str.replace(" ", "_")
replace_spaces(s) == [i \in 1..Len(s) |-> IF s[i] = " " THEN "_" ELSE s[i]]

\* c.lower().strip().replace(" ", "_")
proposed_name(c) == replace_spaces(strip(str_lower(c)))

\* f"{n}", as a text
RECURSIVE text_of_int(_)
text_of_int(n) ==
    IF n < 10 THEN <<Digits[n + 1]>>
    ELSE text_of_int(n \div 10) \o <<Digits[(n % 10) + 1]>>

\* f"{name}_{count}"
suffixed(name, count) == name \o <<"_">> \o text_of_int(count)

\* The loop over proposed: counts and final_names after it.
RECURSIVE resolve_duplicates(_)
resolve_duplicates(proposed) ==
    IF proposed = <<>>
    THEN [counts |-> <<>>, final_names |-> <<>>]
    ELSE LET sofar == resolve_duplicates(SubSeq(proposed, 1, Len(proposed) - 1))
             name == proposed[Len(proposed)]
         IN  IF name \notin DOMAIN sofar.counts
             THEN [counts |-> sofar.counts @@ (name :> 1),
                   final_names |-> Append(sofar.final_names, name)]
             ELSE [counts |-> [sofar.counts EXCEPT ![name] = @ + 1],
                   final_names |-> Append(sofar.final_names,
                                          suffixed(name, sofar.counts[name] + 1))]

\* normalize_columns: the names of the columns of the table returned.
normalize_columns(cols) ==
    resolve_duplicates([i \in 1..Len(cols) |-> proposed_name(cols[i])]).final_names

InitNormalizeColumns ==
    /\ pc = "normalize_columns"
    /\ MatcherIdle
    /\ MergeIdle
    /\ fs = NoFiles
    /\ SamplerIdle
    /\ NoWriters
    /\ BatchIdle
    /\ text = None
    /\ once = None
    /\ twice = None
    /\ columns \in ColumnLists(MaxColumns)
    /\ final_names = None

NormalizeColumns ==
    /\ pc = "normalize_columns"
    /\ final_names' = Some(normalize_columns(columns))
    /\ pc' = "columns_normalized"
    /\ UNCHANGED <<columns, textVars>>
    /\ UNCHANGED <<matchVars, mergeVars, fs, sampleVars, writeVars, batchVars>>

NextNormalizeColumns == NormalizeColumns

SpecNormalizeColumns == InitNormalizeColumns /\ [][NextNormalizeColumns]_vars


----
\* The three pipelines, each started in a folder where the output file is not
\* there, or is there already as a layer without records.
PipelineFilesAtStart == { NoFiles, [p \in {"out.shp"} |-> <<>>] }

InitPipelines ==
    /\ pc \in { "run_firms_vs_ungrd", "merge_firms_shps", "run_random_absence_sampling" }
    /\ fs \in PipelineFilesAtStart
    /\ MatcherIdle
    /\ MergeIdle
    /\ SamplerIdle
    /\ ToolsIdle
    /\ NoWriters

NextPipelines ==
    \/ NextMatch
    \/ NextMerge
    \/ ReadShpsLacking
    \/ NextSample

SpecPipelines == InitPipelines /\ [][NextPipelines]_vars

----
\* What the claims speak of, read off the tables of a finished run.

Attached == pc = "attached"

\* Whole days from the event's instant to the point's, rounded down.
DayDiff(pointTs, eventTs) == (pointTs - eventTs) \div TicksPerDay

\* The event rows in the (department, municipality) of point i (1-based), as
\* positions in the event table.
EventsOf(i) ==
    { j \in 1..Len(df_ungrd) :
        /\ df_ungrd[j].DEPTO_std = gdf_firms[i].depto_std
        /\ df_ungrd[j].MUNICIPIO_std = gdf_firms[i].mpnombre_s_std }

\* The ranked candidates of point i: point date and event date both non-null.
RankedOf(i) ==
    { j \in EventsOf(i) : gdf_firms[i].fecha_FIRMS # <<>> /\ df_ungrd[j].FECHA # <<>> }

AbsDiffOf(i, j) ==
    Abs(DayDiff(gdf_firms[i].fecha_FIRMS[1], df_ungrd[j].FECHA[1]))

\* The output rows of point i.
OutRowsOf(i) == { k \in 1..Len(gdf_out) : gdf_out[k].idx_firms = i - 1 }

NoEventReference(r) ==
    /\ r.fecha_UNGRD_match = <<>>
    /\ r.dif_dias_min = <<>>
    /\ r.dif_dias_abs = <<>>

\* C1: the output of build_candidates -> best_match_per_point -> attach_matches
\* holds every input point exactly once: as many rows as points, and every
\* idx_firms once.
C1_EveryPointExactlyOnce ==
    Attached =>
        /\ Len(gdf_out) = Len(gdf_firms)
        /\ \A i \in 1..Len(gdf_firms) : Cardinality(OutRowsOf(i)) = 1

\* C1 witness: two points, one with several events in its municipality (one of
\* them without a date), the other with none.
C1_Witness ==
    /\ Attached
    /\ Len(gdf_firms) = 2
    /\ \E i \in 1..2 :
          /\ Cardinality(EventsOf(i)) = 2
          /\ \E j \in EventsOf(i) : df_ungrd[j].FECHA = <<>>
          /\ RankedOf(i) # {}
    /\ \E i \in 1..2 : EventsOf(i) = {}

\* C2: for a point with a selected candidate the tier follows from the absolute
\* day difference alone: 0 gives exacta, 1..window_days gives
\* ventana_<window_days>dias (bound included), more gives sin_coincidencia; the
\* three labels differ.
C2_TierByAbsDiff ==
    Attached =>
        LET w == window_days[1] IN
        /\ Cardinality({"exacta", VentanaLabel(w), "sin_coincidencia"}) = 3
        /\ \A k \in 1..Len(gdf_out) :
              LET r == gdf_out[k] IN
              r.dif_dias_abs # <<>> =>
                 LET a == r.dif_dias_abs[1] IN
                 /\ (a = 0) => r.tipo_coincidencia = <<"exacta">>
                 /\ (0 < a /\ a <= w) => r.tipo_coincidencia = <<VentanaLabel(w)>>
                 /\ (a > w) => r.tipo_coincidencia = <<"sin_coincidencia">>

\* C2 witness: a difference equal to a positive window, in the window tier.
C2_Witness ==
    /\ Attached
    /\ window_days # <<>>
    /\ window_days[1] > 0
    /\ \E k \in 1..Len(gdf_out) :
          /\ gdf_out[k].dif_dias_abs = window_days
          /\ gdf_out[k].tipo_coincidencia = <<VentanaLabel(window_days[1])>>

\* C3: for a point with a ranked candidate, the selected candidate is one of the
\* point's ranked candidates and none of them is strictly closer in days.
C3_MinimumAbsDiff ==
    Attached =>
        \A i \in 1..Len(gdf_firms) :
            RankedOf(i) # {} =>
                \A k \in OutRowsOf(i) :
                    LET r == gdf_out[k] IN
                    /\ r.dif_dias_abs # <<>>
                    /\ \E j \in RankedOf(i) :
                          /\ r.fecha_UNGRD_match = df_ungrd[j].FECHA
                          /\ r.dif_dias_abs[1] = AbsDiffOf(i, j)
                    /\ \A j \in RankedOf(i) : r.dif_dias_abs[1] <= AbsDiffOf(i, j)

\* C3 witness: the closer of two ranked candidates is the later row of the event
\* table, and it is the one reported.
C3_Witness ==
    /\ Attached
    /\ \E i \in 1..Len(gdf_firms) :
          \E j1, j2 \in RankedOf(i) :
              /\ j1 < j2
              /\ AbsDiffOf(i, j2) < AbsDiffOf(i, j1)
              /\ \E k \in OutRowsOf(i) : gdf_out[k].dif_dias_abs = <<AbsDiffOf(i, j2)>>

\* C4: a point without a ranked candidate (no event in its municipality, all of
\* their dates null, or its own date null) gets sin_coincidencia and no event
\* reference: matched date, signed and absolute difference all null.
C4_NoRankedNoReference ==
    Attached =>
        \A i \in 1..Len(gdf_firms) :
            RankedOf(i) = {} =>
                \A k \in OutRowsOf(i) :
                    /\ gdf_out[k].tipo_coincidencia = <<"sin_coincidencia">>
                    /\ NoEventReference(gdf_out[k])

\* C5 as stated: the signed difference is point minus event; the point of 10
\* January against the event of 13 January, window 5, gets ventana_5dias, -3 and
\* 3; an event dated on an earlier day than the point gives a positive
\* difference.
C5_EarlierDatePositive ==
    Attached =>
        \A k \in 1..Len(gdf_out) :
            LET r == gdf_out[k] IN
            (r.fecha_FIRMS # <<>> /\ r.fecha_UNGRD_match # <<>>) =>
                LET p == r.fecha_FIRMS[1]
                    e == r.fecha_UNGRD_match[1]
                IN  /\ r.dif_dias_min = <<DayDiff(p, e)>>
                    /\ (p = Midnight(10) /\ e = Midnight(13) /\ window_days = <<5>>) =>
                          /\ r.tipo_coincidencia = <<"ventana_5dias">>
                          /\ r.dif_dias_min = <<-3>>
                          /\ r.dif_dias_abs = <<3>>
                    /\ (e \div TicksPerDay < p \div TicksPerDay) => r.dif_dias_min[1] > 0

\* C5 amended: the signed difference is the whole days of point minus event,
\* rounded down; the point of 10 January against the event of 13 January, window
\* 5, gets ventana_5dias, -3 and 3; an event at least one whole day before the
\* point gives a positive difference, one less than a day before gives 0, one
\* after the point a negative difference.
C5_PointMinusEventWholeDays ==
    Attached =>
        \A k \in 1..Len(gdf_out) :
            LET r == gdf_out[k] IN
            (r.fecha_FIRMS # <<>> /\ r.fecha_UNGRD_match # <<>>) =>
                LET p == r.fecha_FIRMS[1]
                    e == r.fecha_UNGRD_match[1]
                IN  /\ r.dif_dias_min = <<DayDiff(p, e)>>
                    /\ r.dif_dias_abs = <<Abs(DayDiff(p, e))>>
                    /\ (p = Midnight(10) /\ e = Midnight(13) /\ window_days = <<5>>) =>
                          /\ r.tipo_coincidencia = <<"ventana_5dias">>
                          /\ r.dif_dias_min = <<-3>>
                          /\ r.dif_dias_abs = <<3>>
                    /\ (p - e >= TicksPerDay) => r.dif_dias_min[1] > 0
                    /\ (0 <= p - e /\ p - e < TicksPerDay) => r.dif_dias_min[1] = 0
                    /\ (e > p) => r.dif_dias_min[1] < 0

\* C5 witness: the point of 10 January matched to the event of 13 January under
\* window 5, and in the same run a point matched to an event of 7 January.
C5_Witness ==
    /\ Attached
    /\ window_days = <<5>>
    /\ \E k \in 1..Len(gdf_out) :
          /\ gdf_out[k].fecha_FIRMS = <<Midnight(10)>>
          /\ gdf_out[k].fecha_UNGRD_match = <<Midnight(13)>>
          /\ gdf_out[k].dif_dias_min = <<-3>>
          /\ gdf_out[k].tipo_coincidencia = <<"ventana_5dias">>

\* The first row of the event table among the ranked candidates of point i that
\* are closest in days.
FirstClosest(i) ==
    CHOOSE j \in RankedOf(i) :
        /\ \A j2 \in RankedOf(i) : AbsDiffOf(i, j) <= AbsDiffOf(i, j2)
        /\ \A j2 \in RankedOf(i) : AbsDiffOf(i, j2) = AbsDiffOf(i, j) => j <= j2

\* C6: when several ranked candidates of a point share the minimum absolute
\* difference, the one selected is the first of them in the order of the event
\* table.
C6_TieFirstInEventOrder ==
    Attached =>
        \A i \in 1..Len(gdf_firms) :
            RankedOf(i) # {} =>
                \A k \in OutRowsOf(i) :
                    LET j == FirstClosest(i) IN
                    /\ gdf_out[k].fecha_UNGRD_match = df_ungrd[j].FECHA
                    /\ gdf_out[k].dif_dias_min =
                          <<DayDiff(gdf_firms[i].fecha_FIRMS[1], df_ungrd[j].FECHA[1])>>

\* C6 witness: two events of one municipality equally far from the point, one
\* before and one after it, and the first of the table reported.
C6_Witness ==
    /\ Attached
    /\ \E i \in 1..Len(gdf_firms) :
          \E j1, j2 \in RankedOf(i) :
              /\ j1 < j2
              /\ AbsDiffOf(i, j1) = AbsDiffOf(i, j2)
              /\ df_ungrd[j1].FECHA[1] > gdf_firms[i].fecha_FIRMS[1]
              /\ df_ungrd[j2].FECHA[1] < gdf_firms[i].fecha_FIRMS[1]
              /\ j1 = FirstClosest(i)
              /\ \E k \in OutRowsOf(i) : gdf_out[k].fecha_UNGRD_match = df_ungrd[j1].FECHA

\* The candidate rows of point i.
CandidatesOf(i) == { k \in 1..Len(merged) : merged[k].idx_firms = i - 1 }

\* C7: a point whose (department, municipality) matches no event row has exactly
\* one candidate row, with null event fields; it is in the output, with
\* sin_coincidencia and no event reference.
C7_UnmatchedPointKept ==
    Attached =>
        \A i \in 1..Len(gdf_firms) :
            EventsOf(i) = {} =>
                /\ Cardinality(CandidatesOf(i)) = 1
                /\ \A k \in CandidatesOf(i) :
                      /\ merged[k].DEPTO_std = <<>>
                      /\ merged[k].MUNICIPIO_std = <<>>
                      /\ merged[k].FECHA = <<>>
                /\ Cardinality(OutRowsOf(i)) = 1
                /\ \A k \in OutRowsOf(i) :
                      /\ gdf_out[k].tipo_coincidencia = <<"sin_coincidencia">>
                      /\ NoEventReference(gdf_out[k])

\* C7 witness: a point of a municipality without events, beside a point that is
\* matched, the event table not empty.
C7_Witness ==
    /\ Attached
    /\ \E i1, i2 \in 1..Len(gdf_firms) :
          /\ EventsOf(i1) = {}
          /\ RankedOf(i2) # {}
          /\ \A k \in OutRowsOf(i1) : NoEventReference(gdf_out[k])

----
\* What the claims speak of, read off the tables of a finished merge.

Deduplicated == pc = "deduplicated"

\* The dedup key of a row of the table handed to deduplicate_prefer_instrument.
KeyOf(r) == <<r.ACQ_DATE_NORM, r.LATITUDE, r.LONGITUDE>>

\* Instrument names that differ in case only.
CaseClasses == { {"MODIS", "modis", "Modis"}, {"VIIRS", "viirs"} }
SameIgnoringCase(a, b) == a = b \/ \E c \in CaseClasses : a \in c /\ b \in c

IsPreferred(r) ==
    /\ r.INSTRUMENT # <<>>
    /\ SameIgnoringCase(r.INSTRUMENT[1], prefer_value[1])

RankOf(r) == IF IsPreferred(r) THEN 0 ELSE 1

\* The rows of the input that share the key of r.
GroupOf(r) == { i \in 1..Len(g) : KeyOf(g[i]) = KeyOf(r) }

\* C8: after deduplicate_prefer_instrument every dedup key of the input has
\* exactly one record in the output, and every output record is an input record.
C8_OnePerKey ==
    Deduplicated =>
        /\ \A i \in 1..Len(g) :
              Cardinality({ k \in 1..Len(g_out) : KeyOf(g_out[k]) = KeyOf(g[i]) }) = 1
        /\ \A k \in 1..Len(g_out) : \E i \in 1..Len(g) : g_out[k] = g[i]

\* C8 witness: three input records, two of them with one key (their dates
\* written differently), two records out.
C8_Witness ==
    /\ Deduplicated
    /\ Len(g) = 3
    /\ Len(g_out) = 2
    /\ \E i, j \in 1..3 :
          /\ i # j
          /\ KeyOf(g[i]) = KeyOf(g[j])
          /\ g[i].ACQ_DATE # g[j].ACQ_DATE

\* C9: in a key group with a record of the preferred instrument (compared
\* without regard to case) the survivor is of the preferred instrument; the
\* records A/VIIRS, A/MODIS, B/MODIS with MODIS preferred leave A/MODIS and
\* B/MODIS.
C9_PreferredSurvives ==
    Deduplicated =>
        /\ \A k \in 1..Len(g_out) :
              (\E i \in GroupOf(g_out[k]) : IsPreferred(g[i])) => IsPreferred(g_out[k])
        /\ ( /\ Len(g) = 3
             /\ prefer_value = <<"MODIS">>
             /\ KeyOf(g[1]) = KeyOf(g[2])
             /\ KeyOf(g[2]) # KeyOf(g[3])
             /\ g[1].INSTRUMENT = <<"VIIRS">>
             /\ g[2].INSTRUMENT = <<"MODIS">>
             /\ g[3].INSTRUMENT = <<"MODIS">> )
           => { g_out[k] : k \in 1..Len(g_out) } = { g[2], g[3] }

\* C9 witness: the records A/VIIRS, A/modis, B/MODIS with MODIS preferred; the
\* survivor of A is the record written "modis".
C9_Witness ==
    /\ Deduplicated
    /\ Len(g) = 3
    /\ prefer_value = <<"MODIS">>
    /\ KeyOf(g[1]) = KeyOf(g[2])
    /\ KeyOf(g[2]) # KeyOf(g[3])
    /\ g[1].INSTRUMENT = <<"VIIRS">>
    /\ g[2].INSTRUMENT = <<"modis">>
    /\ g[3].INSTRUMENT = <<"MODIS">>
    /\ { g_out[k] : k \in 1..Len(g_out) } = { g[2], g[3] }

\* C10: among the duplicates of one key that have the same priority rank, the
\* survivor is the first in the concatenated input order.
C10_FirstOfEqualRankSurvives ==
    Deduplicated =>
        \A k \in 1..Len(g_out) :
            \A i \in GroupOf(g_out[k]) :
                RankOf(g[i]) = RankOf(g_out[k]) => g_out[k].index <= g[i].index

----
\* C11: the dropped count returned by the deduplication is the number of rows
\* given minus the number of rows returned, and in the summary of a merge
\* n_features_in - n_features_out = n_dropped_dupes, which is never negative.
MergeReturned == pc = "returned"

TotalRowsRead == Len(Flatten(gdfs))

C11_DroppedIsInMinusOut ==
    /\ pc \in {"deduplicated", "written", "returned"} =>
          Val(dropped) = Len(g) - Len(g_out)
    /\ MergeReturned =>
          /\ Val(summary).n_features_in = TotalRowsRead
          /\ Val(summary).n_features_out = Len(fs[Val(final_path)])
          /\ Val(summary).n_features_in - Val(summary).n_features_out
                = Val(summary).n_dropped_dupes
          /\ Val(summary).n_dropped_dupes >= 0

C11_Witness ==
    /\ MergeReturned
    /\ Val(summary).n_dropped_dupes > 0
    /\ Val(summary).n_features_out > 0

----
\* The key cells of a row of the table handed to the deduplication.
KeyCells(r) == <<r.ACQ_DATE_NORM, r.LATITUDE, r.LONGITUDE>>

HasNullKeyCell(r) == \E c \in 1..3 : KeyCells(r)[c] = <<>>

\* Null where the other is null, and nothing more.
SameNullPattern(r1, r2) ==
    \A c \in 1..3 : (KeyCells(r1)[c] = <<>>) <=> (KeyCells(r2)[c] = <<>>)

\* Null where the other is null, the same value where the other has a value.
SameKeyNullsEqual(r1, r2) ==
    \A c \in 1..3 :
        \/ KeyCells(r1)[c] = <<>> /\ KeyCells(r2)[c] = <<>>
        \/ /\ KeyCells(r1)[c] # <<>>
           /\ KeyCells(r2)[c] # <<>>
           /\ KeyCells(r1)[c][1] = KeyCells(r2)[c][1]

SurvivorsLike(r, same(_, _)) == { k \in 1..Len(g_out) : same(g_out[k], r) }

\* C12 as stated: the records with a null key cell that have one pattern of
\* null and non-null key cells leave a single survivor.
C12_SameNullPatternCollapses ==
    Deduplicated =>
        \A i \in 1..Len(g) :
            HasNullKeyCell(g[i]) =>
                Cardinality(SurvivorsLike(g[i], SameNullPattern)) = 1

\* C12: the records with a null key cell whose key cells agree, null agreeing
\* with null and a value with the same value, leave a single survivor; it is
\* of the preferred instrument when one of them is; records whose values
\* differ are kept apart whatever their nulls.
C12_NullKeysGroupByValue ==
    Deduplicated =>
        \A i \in 1..Len(g) :
            HasNullKeyCell(g[i]) =>
                /\ Cardinality(SurvivorsLike(g[i], SameKeyNullsEqual)) = 1
                /\ \A k \in SurvivorsLike(g[i], SameKeyNullsEqual) :
                      /\ \E j \in 1..Len(g) : g[j] = g_out[k]
                      /\ IsPreferred(g[i]) => IsPreferred(g_out[k])
                /\ \A j \in 1..Len(g) :
                      ~SameKeyNullsEqual(g[i], g[j]) =>
                          SurvivorsLike(g[i], SameKeyNullsEqual)
                            # SurvivorsLike(g[j], SameKeyNullsEqual)

\* C12 witness: a null latitude and a text latitude on one date collapse to
\* one record, a null latitude on another date is kept.
C12_Witness ==
    /\ Deduplicated
    /\ Len(g) = 3
    /\ Len(g_out) = 2
    /\ gdfs[1][1].LATITUDE = None
    /\ Flatten(gdfs)[2].LATITUDE = Text("n/a")
    /\ \A i \in 1..3 : g[i].LATITUDE = <<>>
    /\ SameKeyNullsEqual(g[1], g[2])
    /\ ~SameKeyNullsEqual(g[1], g[3])

----
\* What the claims speak of, read off a sampling run.

IsPrefix(a, b) == Len(a) <= Len(b) /\ a = SubSeq(b, 1, Len(a))

\* The call of generate_random_points_in_geom has returned or raised.
CallOver == pc # "sampling"

\* C13: two calls of generate_random_points_in_geom with the same region,
\* n_points, seed and max_attempts_factor draw the same candidates in the same
\* order, accept the same ones, and end alike: the same points in the same
\* order, or the same error with the same counts.
C13_SameArgumentsSameOutcome ==
    call = 2 =>
        /\ IsPrefix(draws, Val(first_call).draws)
        /\ IsPrefix(rand_points, Val(first_call).rand_points)
        /\ CallOver =>
              /\ draws = Val(first_call).draws
              /\ rand_points = Val(first_call).rand_points
              /\ attempts = Val(first_call).attempts
              /\ error = Val(first_call).error

\* C13 witness: a second call that returned two points after a rejected draw.
C13_Witness ==
    /\ call = 2
    /\ pc = "sampled"
    /\ Len(rand_points) = 2
    /\ Len(draws) > 2
    /\ rand_points[1] # rand_points[2]

\* q is in a polygon of the AOI, its edge included.
InAoiUnion(q) ==
    \E i \in 1..Len(aoi) :
        /\ aoi[i] # EmptyGeom
        /\ aoi[i][1] <= q[1] /\ q[1] <= aoi[i][3]
        /\ aoi[i][2] <= q[2] /\ q[2] <= aoi[i][4]

\* q is on the outline of the AOI: a point next to it is outside.
OnAoiOutline(q) ==
    \E dx, dy \in {-1, 0, 1} : ~InAoiUnion(<<q[1] + dx, q[2] + dy>>)

\* The distance from q to e is buffer_m or less.
WithinBufferDistance(q, e) ==
    (q[1] - e[1]) * (q[1] - e[1]) + (q[2] - e[2]) * (q[2] - e[2])
        <= Val(buffer_m) * Val(buffer_m)

\* C14: every point the sampler returns is inside the AOI, off its outline,
\* and not within buffer_m of any exclusion point.
C14_InsideAoiClearOfExclusionPoints ==
    \A k \in 1..Len(rand_points) :
        /\ InAoiUnion(rand_points[k])
        /\ ~OnAoiOutline(rand_points[k])
        /\ \A e \in 1..Len(pts) : ~WithinBufferDistance(rand_points[k], pts[e])

\* The draws a call may make: n_points * max_attempts_factor.
Budget == Val(n_points) * Val(max_attempts_factor)

\* The call has raised the error of too few points.
InsufficientSamples ==
    pc = "raised" /\ error # <<>> /\ error[1].kind = "RuntimeError"

\* C15: the sampling loop ends, after n_points * max_attempts_factor draws at
\* the most, also on a region where no draw is accepted.
C15_LoopTerminatesWithinBudget ==
    /\ [](call > 0 => attempts <= Budget /\ Len(draws) = attempts)
    /\ (pc = "sampling") ~> (pc = "sampled" \/ InsufficientSamples)

\* C15 witness: a region where no draw is accepted, the budget of four draws
\* spent and the loop left.
C15_Witness ==
    /\ InsufficientSamples
    /\ aoi = <<Rect(0, 0, 1, 1)>>
    /\ attempts = 4
    /\ rand_points = <<>>

\* C16: the error of too few points is raised exactly when the loop ends with
\* fewer than n_points accepted, which is when the budget is spent; it reports
\* the points obtained, fewer than n_points, and the attempts made,
\* n_points * max_attempts_factor; n_points reached on the last draw of the
\* budget is a success.
C16_ErrorIffBudgetSpentShort ==
    /\ InsufficientSamples =>
          /\ error[1].generated = Len(rand_points)
          /\ error[1].generated < Val(n_points)
          /\ error[1].requested = Val(n_points)
          /\ error[1].attempts = Budget
          /\ Len(draws) = Budget
    /\ (call > 0 /\ CallOver /\ Len(rand_points) < Val(n_points)) => InsufficientSamples
    /\ (call > 0 /\ CallOver /\ Len(rand_points) >= Val(n_points)) =>
          /\ pc \in {"sampled", "points_written", "sampling_returned"}
          /\ error = <<>>
          /\ Len(rand_points) = Val(n_points)

\* C16 witness: two points asked for, one obtained in the four draws allowed.
C16_Witness ==
    /\ InsufficientSamples
    /\ error[1].generated = 1
    /\ error[1].requested = 2
    /\ error[1].attempts = 4

\* n_points reached on the last draw of the budget, after a rejected draw.
LastDrawSuccess ==
    /\ pc = "sampled"
    /\ Val(n_points) = 1
    /\ attempts = 2
    /\ Budget = 2
    /\ rand_points = <<draws[2]>>

\* The region left after the buffers has some area.
HasArea(geom) ==
    \E c \in CellsOfUnion(geom.aoi) :
        \A b \in geom.buffers : \E q \in Corners(c) : ~InBuffer(q, b)

ZoneCalled == buffer_m # <<>>

ZoneRaised == pc = "raised" /\ ZoneCalled /\ call = 0

\* C17: build_allowed_zone raises if the union of the AOI is empty or if
\* nothing is left of it after the buffers; otherwise it returns a region with
\* some area, and the sampler only ever runs on such a region.
C17_EmptyRegionRaises ==
    /\ ZoneCalled =>
          (ZoneRaised <=>
              \/ \A i \in 1..Len(aoi) : aoi[i] = EmptyGeom
              \/ ~HasArea(difference(unary_union(aoi), buffer_union(pts, Val(buffer_m)))))
    /\ ZoneRaised => error # <<>> /\ error[1].kind = "ValueError" /\ allowed = <<>>
    /\ (ZoneCalled /\ ~ZoneRaised) => allowed # <<>> /\ HasArea(Val(allowed))
    /\ call > 0 => allowed # <<>> /\ HasArea(Val(allowed))

\* C17 witness: an AOI with area, all of it inside the buffer of an exclusion
\* point, and the error raised.
C17_Witness ==
    /\ ZoneRaised
    /\ aoi = <<Rect(0, 0, 4, 4)>>
    /\ pts = << <<0, 0>> >>
    /\ buffer_m = <<10>>

----
\* What the claims speak of, read off the writes.

\* The paths a resolver tries for an output path that exists, in order.
ProbingSequence(scheme, out) ==
    CASE scheme = "_v" /\ out = "out.shp" ->
            <<"out_v002.shp", "out_v003.shp", "out_v004.shp", "out_v005.shp",
              "out_v006.shp", "out_v007.shp">>
      [] scheme = "_v" /\ out = "pts.v1.shp" ->
            <<"pts.v1_v002.shp", "pts.v1_v003.shp", "pts.v1_v004.shp",
              "pts.v1_v005.shp", "pts.v1_v006.shp", "pts.v1_v007.shp">>
      [] scheme = "_" /\ out = "out.shp" ->
            <<"out_1.shp", "out_2.shp", "out_3.shp", "out_4.shp", "out_5.shp",
              "out_6.shp">>
      [] scheme = "_" /\ out = "pts.v1.shp" ->
            <<"pts.v1_1.shp", "pts.v1_2.shp", "pts.v1_3.shp", "pts.v1_4.shp",
              "pts.v1_5.shp", "pts.v1_6.shp">>

FirstUnused(seq, files) ==
    seq[CHOOSE k \in 1..Len(seq) :
            /\ seq[k] \notin files
            /\ \A j \in 1..(k - 1) : seq[j] \in files]

\* The path a call with versioning on has to resolve to, given the files seen.
ExpectedPath(c) ==
    IF c.out_path \notin c.seen THEN c.out_path
    ELSE FirstUnused(ProbingSequence(c.scheme, c.out_path), c.seen)

\* The calls that have resolved their path: those that wait to write, those
\* that have written.
ResolvedCalls ==
    { writer[w] : w \in { v \in DOMAIN writer : writer[v].pc = "resolved" } }
        \cup { [pc |-> "resolved", scheme |-> written[k].scheme,
                out_path |-> written[k].out_path, version |-> written[k].version,
                seen |-> written[k].seen, final |-> written[k].final,
                content |-> written[k].content] : k \in 1..Len(written) }

\* C18: with versioning on the resolver returns the output path itself if no
\* file has it, and otherwise the first path of its sequence that no file has
\* (base_v002, base_v003, ... for next_version_path; base_1, base_2, ... for
\* next_version_path_suffix_1), whichever later ones exist; two writes to an
\* existing out.shp give out_v002.shp, then out_v003.shp.
C18_FirstUnusedVersion ==
    \A c \in ResolvedCalls : c.version => c.final = ExpectedPath(c)

\* C18 witness: out.shp alone exists; two writes to it with next_version_path
\* go to out_v002.shp and out_v003.shp.
C18_Witness ==
    /\ Len(written) = 2
    /\ written[1].seen = {"out.shp"}
    /\ written[1].scheme = "_v" /\ written[1].version /\ written[1].out_path = "out.shp"
    /\ written[2].scheme = "_v" /\ written[2].version /\ written[2].out_path = "out.shp"
    /\ written[1].final = "out_v002.shp"
    /\ written[2].final = "out_v003.shp"

\* C19: in one process no write with versioning on goes to a path that a file
\* has, at the time it is resolved or at the time it is written, and as long
\* as the later writes are versioned too every file written keeps its content.
C19_VersionedWritesNeverOverwrite ==
    \A k \in 1..Len(written) :
        /\ written[k].version =>
              /\ written[k].final \notin written[k].seen
              /\ ~written[k].existed
        /\ (\A j \in (k + 1)..Len(written) : written[j].version) =>
              /\ written[k].final \in DOMAIN fs
              /\ fs[written[k].final] = written[k].content
        /\ (\A j \in 1..Len(written) : written[j].version) =>
              \A p \in written[1].seen : p \in DOMAIN fs /\ fs[p] = <<0>>

\* C19 witness: out.shp and out_1.shp exist; two writes to out.shp with
\* next_version_path_suffix_1 go to out_2.shp and out_3.shp, and all four files
\* have their content.
C19_Witness ==
    /\ Len(written) = 2
    /\ written[1].seen = {"out.shp", "out_1.shp"}
    /\ written[1].scheme = "_" /\ written[1].version
    /\ written[2].scheme = "_" /\ written[2].version
    /\ DOMAIN fs = {"out.shp", "out_1.shp", "out_2.shp", "out_3.shp"}
    /\ fs["out.shp"] = <<0>> /\ fs["out_1.shp"] = <<0>>
    /\ fs["out_2.shp"] = written[1].content
    /\ fs["out_3.shp"] = written[2].content

\* C20: with two processes the look at the files and the write are two steps
\* with nothing to hold the path in between: a versioned write goes to a path
\* that was free when it was resolved, but the file may exist by the time it
\* is written; it then is the output of the other process, written to the
\* same path in between, and that output is replaced and lost.
C20_ConcurrentWritersOverwrite ==
    \A k \in 1..Len(written) :
        written[k].version =>
            /\ written[k].final \notin written[k].seen
            /\ written[k].existed =>
                  \E j \in 1..(k - 1) :
                      /\ written[j].proc # written[k].proc
                      /\ written[j].final = written[k].final
                      /\ \A p \in DOMAIN fs : fs[p] # written[j].content

\* C20 witness: both processes resolve out.shp to out_v002.shp before either
\* writes; the file ends with the content of the second write.
C20_Witness ==
    /\ Len(written) = 2
    /\ written[1].proc # written[2].proc
    /\ written[1].version /\ written[2].version
    /\ written[1].out_path = "out.shp"
    /\ written[1].final = "out_v002.shp"
    /\ written[2].final = "out_v002.shp"
    /\ written[2].existed
    /\ fs["out_v002.shp"] = written[2].content

----
\* The batch walkers

WalkerReturned(w) == w \in DOMAIN runs /\ runs[w].summary # None

\* The files a walker went through, in order.
HandledBy(w) == SelectSeq(handled, LAMBDA h : h.walker = w)

\* The files of its folder the walker's filter selects.
SelectedBy(w) ==
    IF w = "batch_reproject_shps"
    THEN SelectSeq(runs[w].root, LAMBDA e :
            e.ext \in { ".shp", ".SHP" } /\ \A i \in DOMAIN e.parts : e.parts[i] # "_wgs84")
    ELSE SelectSeq(runs[w].root, LAMBDA e :
            /\ e.ext \in { ".shp", ".SHP" }
            /\ e.parts # <<>>
            /\ e.parts[Len(e.parts)] = "_wgs84"
            /\ \A i \in DOMAIN e.parts : e.parts[i] # "_recorte")

\* The files whose processing fails with an exception.
Fails(w, e) ==
    IF w = "batch_reproject_shps"
    THEN e.layer \in { "unreadable", "empty", "no_crs" }
    ELSE e.layer \in { "unreadable", "no_crs" }

CountWhere(s, Test(_)) == Len(SelectSeq(s, Test))

\* C21: the batch walkers are fault-isolated.  Between two turns of the loop the
\* total is the sum of the outcome counters and the number of files gone
\* through; when a walker has returned, it went through every file its filter
\* selected, in order, the files after a failing one too; the total it returns
\* is the number of files selected and the sum of its counters, and err is the
\* number of selected files whose processing failed.
C21_WalkersFaultIsolated ==
    /\ pc = "batch_reproject_shps" =>
          /\ Val(batch_summary).total = Val(batch_summary).ok + Val(batch_summary).err
          /\ Val(batch_summary).total = Len(HandledBy("batch_reproject_shps"))
    /\ pc = "batch_clip" =>
          /\ Val(batch_summary).total =
                Val(batch_summary).clipped_ok
                + Val(batch_summary).no_intersection_or_empty + Val(batch_summary).err
          /\ Val(batch_summary).total = Len(HandledBy("batch_clip"))
    /\ \A w \in DOMAIN runs :
          WalkerReturned(w) =>
             LET s == Val(runs[w].summary)
                 sel == SelectedBy(w)
                 done == HandledBy(w)
             IN  /\ [i \in 1..Len(done) |-> done[i].file] = sel
                 /\ s.total = Len(sel)
                 /\ s.err = CountWhere(sel, LAMBDA e : Fails(w, e))
                 /\ \A i \in 1..Len(done) :
                       (done[i].status = "ERROR") = Fails(w, done[i].file)
                 /\ IF w = "batch_reproject_shps"
                    THEN s.total = s.ok + s.err
                    ELSE s.total = s.clipped_ok + s.no_intersection_or_empty + s.err

\* Both walkers have returned, and each went on to a file it processed well
\* after a file that failed.
C21_Witness ==
    /\ pc = "batch_idle"
    /\ \A w \in { "batch_reproject_shps", "batch_clip" } :
          /\ WalkerReturned(w)
          /\ Val(runs[w].summary).err >= 1
          /\ \E i, j \in 1..Len(HandledBy(w)) :
                /\ i < j
                /\ HandledBy(w)[i].status = "ERROR"
                /\ HandledBy(w)[j].status = "OK"

----
\* normalize_text

\* C23: normalize_text is idempotent: normalize_text(null) is null, and for
\* every string x, normalize_text(normalize_text(x)) = normalize_text(x).
C23_NormalizeTextIdempotent ==
    /\ (pc \in { "normalized", "normalized_twice" } /\ isna(text)) => isna(once)
    /\ (pc = "normalized_twice" /\ notna(text)) => twice = once

----
\* normalize_columns

\* C26: normalize_columns resolves the collisions of names: the names it gives
\* are pairwise distinct, for every list of column names, also when a name with
\* a suffix is among the input columns.
C26_FinalNamesDistinct ==
    pc = "columns_normalized" =>
        \A i, j \in 1..Len(Val(final_names)) :
            Val(final_names)[i] = Val(final_names)[j] => i = j

----
\* The counts of the sampling loop

SamplingStarted == call > 0

SamplerSucceeded == pc \in { "sampled", "points_written", "sampling_returned" }

\* C27: for n_points >= 0 and max_attempts_factor >= 0, at every step of the
\* sampling loop the accepted points are at most n_points and at most the
\* attempts, and the attempts are at most n_points * max_attempts_factor; on
\* success the sampler returns exactly n_points points, and the summary says so;
\* with n_points = 0 it returns the empty list and has drawn nothing.
C27_SamplerCounts ==
    /\ SamplingStarted =>
          /\ Len(rand_points) <= Val(n_points)
          /\ Len(rand_points) <= attempts
          /\ attempts <= Val(n_points) * Val(max_attempts_factor)
    /\ SamplerSucceeded => Len(rand_points) = Val(n_points)
    /\ pc = "sampling_returned" =>
          /\ Val(sampling_summary).n_requested = Val(n_points)
          /\ Val(sampling_summary).n_generated = Val(n_points)
    /\ (SamplingStarted /\ Val(n_points) = 0) =>
          /\ rand_points = <<>>
          /\ attempts = 0
          /\ draws = <<>>
          /\ rng = Some(Val(seed) % RngModulus)
          /\ pc # "raised"

\* The sampler returned the two points asked for, after a draw it rejected.
C27_Witness ==
    /\ pc = "sampling_returned"
    /\ Val(n_points) = 2
    /\ Len(rand_points) = 2
    /\ attempts > 2
    /\ Val(sampling_summary).n_generated = 2

----
\* Required fields missing from one source

\* One of the tables read lacks a required field.
SourceLacksField ==
    \E i \in 1..Len(schemas) : ~(RequiredFields \subseteq schemas[i])

MissingFieldError ==
    pc = "raised" /\ error # <<>> /\ error[1].message = "Faltan campos requeridos"

\* C25: when a required field is absent from the schema of any one source,
\* merge_firms_shps fails with the missing-field error before deduplicating or
\* writing, also when another source carries the field: the run never gets
\* past the validation.
C25_MissingFieldInAnySourceRaises ==
    SourceLacksField =>
        /\ pc \in { "shps_read", "concatenated", "raised" }
        /\ pc = "raised" => MissingFieldError
        /\ fs = NoFiles

----
\* The rows of the event sheet

\* load_ungrd_excel has returned the table of events.
UngrdLoaded ==
    pc \in { "ungrd_loaded", "firms_loaded", "candidates_built", "matched", "attached",
             "match_written", "match_returned" }

MatcherAttached == pc \in { "attached", "match_written", "match_returned" }

\* The date cell of a sheet row is no date: empty, or a text that is none.
Unparseable(cell) == cell = <<>> \/ Len(cell) = 2

\* The events without the rows whose date is null.
DatedEvents == SelectSeq(df_ungrd, LAMBDA e : e.FECHA # <<>>)

\* C24: load_ungrd_excel drops no row: the table it returns has as many rows as
\* the sheet, in the order of the sheet; a row whose date is unparseable is kept
\* with a null date, the other rows keep their date.  A null-dated event is the
\* match of no point: the output is the output of the run on the events whose
\* date is not null, and a point whose events are all null-dated gets
\* sin_coincidencia and no event reference.
C24_NoRowDroppedNullDateNeverMatched ==
    /\ UngrdLoaded =>
          /\ Len(df_ungrd) = Len(excel_rows)
          /\ \A i \in 1..Len(excel_rows) :
                /\ Unparseable(excel_rows[i].FECHA) => df_ungrd[i].FECHA = <<>>
                /\ ~Unparseable(excel_rows[i].FECHA) => df_ungrd[i].FECHA = excel_rows[i].FECHA
                /\ (excel_rows[i].DEPARTAMENTO = <<>>) = (df_ungrd[i].DEPTO_std = <<>>)
    /\ MatcherAttached =>
          /\ gdf_out = attach_matches(gdf_firms_reset,
                           best_match_per_point(build_candidates(gdf_firms, DatedEvents),
                                                window_days[1]))
          /\ \A i \in 1..Len(gdf_firms) :
                (\A j \in EventsOf(i) : df_ungrd[j].FECHA = <<>>) =>
                    \A k \in OutRowsOf(i) :
                        /\ gdf_out[k].tipo_coincidencia = <<"sin_coincidencia">>
                        /\ NoEventReference(gdf_out[k])

\* The sheet has a row whose date is a text that is no date and a dated row of
\* the same municipality; a point of the municipality is matched to the dated
\* row.
C24_Witness ==
    /\ pc = "attached"
    /\ Len(excel_rows) = 2
    /\ \E i, j \in 1..2 :
          /\ Len(excel_rows[i].FECHA) = 2
          /\ df_ungrd[i].FECHA = <<>>
          /\ df_ungrd[j].FECHA # <<>>
          /\ df_ungrd[i].DEPTO_std = df_ungrd[j].DEPTO_std
          /\ df_ungrd[i].MUNICIPIO_std = df_ungrd[j].MUNICIPIO_std
          /\ \E p \in 1..Len(gdf_firms) :
                /\ {i, j} \subseteq EventsOf(p)
                /\ \E k \in OutRowsOf(p) : gdf_out[k].fecha_UNGRD_match = df_ungrd[j].FECHA

----
\* The counts of the MatchSummary

MatchReturned == pc = "match_returned"

\* C28: in the MatchSummary returned by run_firms_vs_ungrd the three tier counts
\* add up to the points, n_exact + n_window + n_none = n_points, and
\* n_points_with_any_ungrd is at least n_exact + n_window, for every window_days.
C28_TierCountsPartitionPoints ==
    MatchReturned =>
        /\ summary[1].n_points = Len(gdf_out)
        /\ summary[1].n_exact + summary[1].n_window + summary[1].n_none
              = summary[1].n_points
        /\ summary[1].n_points_with_any_ungrd
              >= summary[1].n_exact + summary[1].n_window

\* A run under window 1 gave back one exact match and one match in the window.
C28_Witness ==
    /\ MatchReturned
    /\ window_days = <<1>>
    /\ summary[1].n_points = 2
    /\ summary[1].n_exact = 1
    /\ summary[1].n_window = 1
    /\ summary[1].n_none = 0

----
\* The fields of a match

\* C29: the fields reported for a matched point come from one candidate:
\* when the matched event date is not null, it is the date of an event row of
\* the point's own (department, municipality); the signed difference is the
\* point's date minus that date in whole days (null when the point has no date);
\* and the absolute difference is the absolute value of the signed one.
C29_MatchFieldsFromOneCandidate ==
    MatcherAttached =>
        \A k \in 1..Len(gdf_out) :
            LET r == gdf_out[k]
                i == r.idx_firms + 1
            IN  r.fecha_UNGRD_match # <<>> =>
                    /\ \E j \in EventsOf(i) :
                          /\ df_ungrd[j].FECHA = r.fecha_UNGRD_match
                          /\ IF gdf_firms[i].fecha_FIRMS = <<>>
                             THEN r.dif_dias_min = <<>>
                             ELSE r.dif_dias_min =
                                    <<DayDiff(gdf_firms[i].fecha_FIRMS[1], df_ungrd[j].FECHA[1])>>
                    /\ IF r.dif_dias_min = <<>>
                       THEN r.dif_dias_abs = <<>>
                       ELSE r.dif_dias_abs = <<Abs(r.dif_dias_min[1])>>

\* A point with two dated events in its municipality, matched to the later one
\* with a negative difference.
C29_Witness ==
    /\ pc = "attached"
    /\ \E k \in 1..Len(gdf_out) :
          /\ gdf_out[k].fecha_UNGRD_match # <<>>
          /\ gdf_out[k].dif_dias_min # <<>>
          /\ gdf_out[k].dif_dias_min[1] < 0
          /\ gdf_out[k].dif_dias_abs = <<-gdf_out[k].dif_dias_min[1]>>
          /\ \E j1, j2 \in EventsOf(gdf_out[k].idx_firms + 1) :
                /\ j1 # j2
                /\ df_ungrd[j1].FECHA # <<>>
                /\ df_ungrd[j2].FECHA # <<>>
                /\ df_ungrd[j1].FECHA # df_ungrd[j2].FECHA

----
\* Points without a department or a municipality

NullKeyPoint(i) ==
    gdf_firms[i].depto_std = <<>> \/ gdf_firms[i].mpnombre_s_std = <<>>

\* C30: a point whose normalized department or municipality is null is paired
\* with no event in build_candidates, a null key matching no null key of an
\* event row: its candidate rows carry no event, and the point ends with
\* sin_coincidencia and no event reference.
C30_NullKeyPointUnmatched ==
    /\ pc \in { "candidates_built", "matched" } \cup { "attached", "match_written",
                                                        "match_returned" } =>
          \A c \in 1..Len(merged) :
              NullKeyPoint(merged[c].idx_firms + 1) =>
                  /\ merged[c].DEPTO_std = <<>>
                  /\ merged[c].MUNICIPIO_std = <<>>
                  /\ merged[c].FECHA = <<>>
    /\ MatcherAttached =>
          \A i \in 1..Len(gdf_firms) :
              NullKeyPoint(i) =>
                  \A k \in OutRowsOf(i) :
                      /\ gdf_out[k].tipo_coincidencia = <<"sin_coincidencia">>
                      /\ NoEventReference(gdf_out[k])

----
\* The output file is written last

\* The pipeline has written its output.
OutputWritten ==
    pc \in { "match_written", "match_returned", "written", "returned", "points_written",
             "sampling_returned" }

WriteStep ==
    /\ pc \in { "attached", "deduplicated", "sampled" }
    /\ pc' \in { "match_written", "written", "points_written" }

\* C22: in merge_firms_shps, run_firms_vs_ungrd and run_random_absence_sampling
\* the output file is written last: the files change in the write step only,
\* no error is raised once the output is written, and when an error is raised
\* (missing file, missing field, empty or CRS-less layer, empty region, too few
\* points) the files are as they were at the start.
C22_OutputWrittenLast ==
    /\ [](~OutputWritten => fs \in PipelineFilesAtStart)
    /\ [](pc = "raised" => error # <<>> /\ fs \in PipelineFilesAtStart)
    /\ [][fs' # fs => WriteStep]_vars
    /\ [][pc' = "raised" => fs' = fs /\ ~OutputWritten]_vars

\* The merge has raised the missing-field error in a folder where out.shp was
\* there already, and the file is as it was.
C22_Witness ==
    /\ pc = "raised"
    /\ error # <<>>
    /\ error[1].kind = "ValueError"
    /\ error[1].message = "Faltan campos requeridos"
    /\ fs = [p \in {"out.shp"} |-> <<>>]

====
